---- MODULE Spec2Model ----
(***************************************************************************)
(* Model of the CSV parse / transform / upsert part of scrapeAndUpload     *)
(* (src/src/scraper.ts).  Strings are sequences of one-character strings,  *)
(* so that toLowerCase, trim, replace, parseFloat and Date parsing are     *)
(* computed character by character as the JavaScript built-ins do.         *)
(***************************************************************************)
EXTENDS Integers, Sequences, FiniteSets, TLC

(***************************************************************************)
(* Bounds of the model.                                                    *)
(***************************************************************************)
\* Largest number of data lines of the downloaded CSV.
MaxRows == 2

(***************************************************************************)
(* JavaScript values.                                                      *)
(***************************************************************************)
\* The JavaScript value undefined, where a string may stand.
UNDEFINED == <<"undefined">>

\* The empty string ''.
EMPTY == <<>>

\* null returned by the records.map callback for a skipped record.
NULL == [null |-> TRUE]

\* null in a numeric column (Usage / Cost).
NullNumber == [kind |-> "null"]

\* The number NaN.
NaN == [kind |-> "NaN"]

\* A finite number, named by the decimal (-1)^neg * mant * 10^exp that
\* Number::toString writes for it: mant is the string of its digits, with no
\* zero at either end (0 is the digit 0 with exp 0), so that equal numbers
\* are equal records; -0 is kept apart from 0.
Number(neg, mant, exp) == [kind |-> "number", neg |-> neg, mant |-> mant, exp |-> exp]

\* +Infinity / -Infinity.
Infinity(neg) == [kind |-> "Infinity", neg |-> neg]

\* JavaScript truthiness of a string-or-undefined value: !!v.
Truthy(v) == v /= UNDEFINED /\ v /= EMPTY

\* a || b on string-or-undefined values.
Or(a, b) == IF Truthy(a) THEN a ELSE b

(***************************************************************************)
(* String built-ins.  A character is a one-character string; a character   *)
(* that cannot be written in a TLA+ string (the backquote, a character     *)
(* above U+00FF whose code ends in a byte below 80 hex, a character above  *)
(* U+FFFF) is written by its code point, as in "U+0130".                   *)
(***************************************************************************)
\* The characters whose lower case (Unicode toLowercase) is one other
\* character, the capital sigma left out: its lower case depends on where
\* it stands.
UpperChars ==
  <<"A", "B", "C", "D", "E", "F", "G", "H", "I", "J", "K", "L",
    "M", "N", "O", "P", "Q", "R", "S", "T", "U", "V", "W", "X",
    "Y", "Z", "À", "Á", "Â", "Ã", "Ä", "Å", "Æ", "Ç", "È", "É",
    "Ê", "Ë", "Ì", "Í", "Î", "Ï", "Ð", "Ñ", "Ò", "Ó", "Ô", "Õ",
    "Ö", "Ø", "Ù", "Ú", "Û", "Ü", "Ý", "Þ", "U+0100", "U+0102", "U+0104", "U+0106",
    "U+0108", "U+010A", "U+010C", "U+010E", "U+0110", "U+0112", "U+0114", "U+0116", "U+0118", "U+011A", "U+011C", "U+011E",
    "U+0120", "U+0122", "U+0124", "U+0126", "U+0128", "U+012A", "U+012C", "U+012E", "U+0132", "U+0134", "U+0136", "U+0139",
    "U+013B", "U+013D", "U+013F", "U+0141", "U+0143", "U+0145", "U+0147", "U+014A", "U+014C", "U+014E", "U+0150", "U+0152",
    "U+0154", "U+0156", "U+0158", "U+015A", "U+015C", "U+015E", "U+0160", "U+0162", "U+0164", "U+0166", "U+0168", "U+016A",
    "U+016C", "U+016E", "U+0170", "U+0172", "U+0174", "U+0176", "U+0178", "U+0179", "U+017B", "U+017D", "Ɓ", "Ƃ",
    "Ƅ", "Ɔ", "Ƈ", "Ɖ", "Ɗ", "Ƌ", "Ǝ", "Ə", "Ɛ", "Ƒ", "Ɠ", "Ɣ",
    "Ɩ", "Ɨ", "Ƙ", "Ɯ", "Ɲ", "Ɵ", "Ơ", "Ƣ", "Ƥ", "Ʀ", "Ƨ", "Ʃ",
    "Ƭ", "Ʈ", "Ư", "Ʊ", "Ʋ", "Ƴ", "Ƶ", "Ʒ", "Ƹ", "Ƽ", "Ǆ", "ǅ",
    "Ǉ", "ǈ", "Ǌ", "ǋ", "Ǎ", "Ǐ", "Ǒ", "Ǔ", "Ǖ", "Ǘ", "Ǚ", "Ǜ",
    "Ǟ", "Ǡ", "Ǣ", "Ǥ", "Ǧ", "Ǩ", "Ǫ", "Ǭ", "Ǯ", "Ǳ", "ǲ", "Ǵ",
    "Ƕ", "Ƿ", "Ǹ", "Ǻ", "Ǽ", "Ǿ", "U+0200", "U+0202", "U+0204", "U+0206", "U+0208", "U+020A",
    "U+020C", "U+020E", "U+0210", "U+0212", "U+0214", "U+0216", "U+0218", "U+021A", "U+021C", "U+021E", "U+0220", "U+0222",
    "U+0224", "U+0226", "U+0228", "U+022A", "U+022C", "U+022E", "U+0230", "U+0232", "U+023A", "U+023B", "U+023D", "U+023E",
    "U+0241", "U+0243", "U+0244", "U+0245", "U+0246", "U+0248", "U+024A", "U+024C", "U+024E", "U+0370", "U+0372", "U+0376",
    "U+037F", "Ά", "Έ", "Ή", "Ί", "Ό", "Ύ", "Ώ", "Α", "Β", "Γ", "Δ",
    "Ε", "Ζ", "Η", "Θ", "Ι", "Κ", "Λ", "Μ", "Ν", "Ξ", "Ο", "Π",
    "Ρ", "Τ", "Υ", "Φ", "Χ", "Ψ", "Ω", "Ϊ", "Ϋ", "Ϗ", "Ϙ", "Ϛ",
    "Ϝ", "Ϟ", "Ϡ", "Ϣ", "Ϥ", "Ϧ", "Ϩ", "Ϫ", "Ϭ", "Ϯ", "ϴ", "Ϸ",
    "Ϲ", "Ϻ", "Ͻ", "Ͼ", "Ͽ", "U+0400", "U+0401", "U+0402", "U+0403", "U+0404", "U+0405", "U+0406",
    "U+0407", "U+0408", "U+0409", "U+040A", "U+040B", "U+040C", "U+040D", "U+040E", "U+040F", "U+0410", "U+0411", "U+0412",
    "U+0413", "U+0414", "U+0415", "U+0416", "U+0417", "U+0418", "U+0419", "U+041A", "U+041B", "U+041C", "U+041D", "U+041E",
    "U+041F", "U+0420", "U+0421", "U+0422", "U+0423", "U+0424", "U+0425", "U+0426", "U+0427", "U+0428", "U+0429", "U+042A",
    "U+042B", "U+042C", "U+042D", "U+042E", "U+042F", "U+0460", "U+0462", "U+0464", "U+0466", "U+0468", "U+046A", "U+046C",
    "U+046E", "U+0470", "U+0472", "U+0474", "U+0476", "U+0478", "U+047A", "U+047C", "U+047E", "Ҁ", "Ҋ", "Ҍ",
    "Ҏ", "Ґ", "Ғ", "Ҕ", "Җ", "Ҙ", "Қ", "Ҝ", "Ҟ", "Ҡ", "Ң", "Ҥ",
    "Ҧ", "Ҩ", "Ҫ", "Ҭ", "Ү", "Ұ", "Ҳ", "Ҵ", "Ҷ", "Ҹ", "Һ", "Ҽ",
    "Ҿ", "Ӏ", "Ӂ", "Ӄ", "Ӆ", "Ӈ", "Ӊ", "Ӌ", "Ӎ", "Ӑ", "Ӓ", "Ӕ",
    "Ӗ", "Ә", "Ӛ", "Ӝ", "Ӟ", "Ӡ", "Ӣ", "Ӥ", "Ӧ", "Ө", "Ӫ", "Ӭ",
    "Ӯ", "Ӱ", "Ӳ", "Ӵ", "Ӷ", "Ӹ", "Ӻ", "Ӽ", "Ӿ", "U+0500", "U+0502", "U+0504",
    "U+0506", "U+0508", "U+050A", "U+050C", "U+050E", "U+0510", "U+0512", "U+0514", "U+0516", "U+0518", "U+051A", "U+051C",
    "U+051E", "U+0520", "U+0522", "U+0524", "U+0526", "U+0528", "U+052A", "U+052C", "U+052E", "U+0531", "U+0532", "U+0533",
    "U+0534", "U+0535", "U+0536", "U+0537", "U+0538", "U+0539", "U+053A", "U+053B", "U+053C", "U+053D", "U+053E", "U+053F",
    "U+0540", "U+0541", "U+0542", "U+0543", "U+0544", "U+0545", "U+0546", "U+0547", "U+0548", "U+0549", "U+054A", "U+054B",
    "U+054C", "U+054D", "U+054E", "U+054F", "U+0550", "U+0551", "U+0552", "U+0553", "U+0554", "U+0555", "U+0556", "Ⴀ",
    "Ⴁ", "Ⴂ", "Ⴃ", "Ⴄ", "Ⴅ", "Ⴆ", "Ⴇ", "Ⴈ", "Ⴉ", "Ⴊ", "Ⴋ", "Ⴌ",
    "Ⴍ", "Ⴎ", "Ⴏ", "Ⴐ", "Ⴑ", "Ⴒ", "Ⴓ", "Ⴔ", "Ⴕ", "Ⴖ", "Ⴗ", "Ⴘ",
    "Ⴙ", "Ⴚ", "Ⴛ", "Ⴜ", "Ⴝ", "Ⴞ", "Ⴟ", "Ⴠ", "Ⴡ", "Ⴢ", "Ⴣ", "Ⴤ",
    "Ⴥ", "Ⴧ", "Ⴭ", "Ꭰ", "Ꭱ", "Ꭲ", "Ꭳ", "Ꭴ", "Ꭵ", "Ꭶ", "Ꭷ", "Ꭸ",
    "Ꭹ", "Ꭺ", "Ꭻ", "Ꭼ", "Ꭽ", "Ꭾ", "Ꭿ", "Ꮀ", "Ꮁ", "Ꮂ", "Ꮃ", "Ꮄ",
    "Ꮅ", "Ꮆ", "Ꮇ", "Ꮈ", "Ꮉ", "Ꮊ", "Ꮋ", "Ꮌ", "Ꮍ", "Ꮎ", "Ꮏ", "Ꮐ",
    "Ꮑ", "Ꮒ", "Ꮓ", "Ꮔ", "Ꮕ", "Ꮖ", "Ꮗ", "Ꮘ", "Ꮙ", "Ꮚ", "Ꮛ", "Ꮜ",
    "Ꮝ", "Ꮞ", "Ꮟ", "Ꮠ", "Ꮡ", "Ꮢ", "Ꮣ", "Ꮤ", "Ꮥ", "Ꮦ", "Ꮧ", "Ꮨ",
    "Ꮩ", "Ꮪ", "Ꮫ", "Ꮬ", "Ꮭ", "Ꮮ", "Ꮯ", "Ꮰ", "Ꮱ", "Ꮲ", "Ꮳ", "Ꮴ",
    "Ꮵ", "Ꮶ", "Ꮷ", "Ꮸ", "Ꮹ", "Ꮺ", "Ꮻ", "Ꮼ", "Ꮽ", "Ꮾ", "Ꮿ", "Ᏸ",
    "Ᏹ", "Ᏺ", "Ᏻ", "Ᏼ", "Ᏽ", "Ა", "Ბ", "Გ", "Დ", "Ე", "Ვ", "Ზ",
    "Თ", "Ი", "Კ", "Ლ", "Მ", "Ნ", "Ო", "Პ", "Ჟ", "Რ", "Ს", "Ტ",
    "Უ", "Ფ", "Ქ", "Ღ", "Ყ", "Შ", "Ჩ", "Ც", "Ძ", "Წ", "Ჭ", "Ხ",
    "Ჯ", "Ჰ", "Ჱ", "Ჲ", "Ჳ", "Ჴ", "Ჵ", "Ჶ", "Ჷ", "Ჸ", "Ჹ", "Ჺ",
    "Ჽ", "Ჾ", "Ჿ", "U+1E00", "U+1E02", "U+1E04", "U+1E06", "U+1E08", "U+1E0A", "U+1E0C", "U+1E0E", "U+1E10",
    "U+1E12", "U+1E14", "U+1E16", "U+1E18", "U+1E1A", "U+1E1C", "U+1E1E", "U+1E20", "U+1E22", "U+1E24", "U+1E26", "U+1E28",
    "U+1E2A", "U+1E2C", "U+1E2E", "U+1E30", "U+1E32", "U+1E34", "U+1E36", "U+1E38", "U+1E3A", "U+1E3C", "U+1E3E", "U+1E40",
    "U+1E42", "U+1E44", "U+1E46", "U+1E48", "U+1E4A", "U+1E4C", "U+1E4E", "U+1E50", "U+1E52", "U+1E54", "U+1E56", "U+1E58",
    "U+1E5A", "U+1E5C", "U+1E5E", "U+1E60", "U+1E62", "U+1E64", "U+1E66", "U+1E68", "U+1E6A", "U+1E6C", "U+1E6E", "U+1E70",
    "U+1E72", "U+1E74", "U+1E76", "U+1E78", "U+1E7A", "U+1E7C", "U+1E7E", "Ẁ", "Ẃ", "Ẅ", "Ẇ", "Ẉ",
    "Ẋ", "Ẍ", "Ẏ", "Ẑ", "Ẓ", "Ẕ", "ẞ", "Ạ", "Ả", "Ấ", "Ầ", "Ẩ",
    "Ẫ", "Ậ", "Ắ", "Ằ", "Ẳ", "Ẵ", "Ặ", "Ẹ", "Ẻ", "Ẽ", "Ế", "Ề",
    "Ể", "Ễ", "Ệ", "Ỉ", "Ị", "Ọ", "Ỏ", "Ố", "Ồ", "Ổ", "Ỗ", "Ộ",
    "Ớ", "Ờ", "Ở", "Ỡ", "Ợ", "Ụ", "Ủ", "Ứ", "Ừ", "Ử", "Ữ", "Ự",
    "Ỳ", "Ỵ", "Ỷ", "Ỹ", "Ỻ", "Ỽ", "Ỿ", "U+1F08", "U+1F09", "U+1F0A", "U+1F0B", "U+1F0C",
    "U+1F0D", "U+1F0E", "U+1F0F", "U+1F18", "U+1F19", "U+1F1A", "U+1F1B", "U+1F1C", "U+1F1D", "U+1F28", "U+1F29", "U+1F2A",
    "U+1F2B", "U+1F2C", "U+1F2D", "U+1F2E", "U+1F2F", "U+1F38", "U+1F39", "U+1F3A", "U+1F3B", "U+1F3C", "U+1F3D", "U+1F3E",
    "U+1F3F", "U+1F48", "U+1F49", "U+1F4A", "U+1F4B", "U+1F4C", "U+1F4D", "U+1F59", "U+1F5B", "U+1F5D", "U+1F5F", "U+1F68",
    "U+1F69", "U+1F6A", "U+1F6B", "U+1F6C", "U+1F6D", "U+1F6E", "U+1F6F", "ᾈ", "ᾉ", "ᾊ", "ᾋ", "ᾌ",
    "ᾍ", "ᾎ", "ᾏ", "ᾘ", "ᾙ", "ᾚ", "ᾛ", "ᾜ", "ᾝ", "ᾞ", "ᾟ", "ᾨ",
    "ᾩ", "ᾪ", "ᾫ", "ᾬ", "ᾭ", "ᾮ", "ᾯ", "Ᾰ", "Ᾱ", "Ὰ", "Ά", "ᾼ",
    "Ὲ", "Έ", "Ὴ", "Ή", "ῌ", "Ῐ", "Ῑ", "Ὶ", "Ί", "Ῠ", "Ῡ", "Ὺ",
    "Ύ", "Ῥ", "Ὸ", "Ό", "Ὼ", "Ώ", "ῼ", "U+2126", "U+212A", "U+212B", "U+2132", "U+2160",
    "U+2161", "U+2162", "U+2163", "U+2164", "U+2165", "U+2166", "U+2167", "U+2168", "U+2169", "U+216A", "U+216B", "U+216C",
    "U+216D", "U+216E", "U+216F", "Ↄ", "Ⓐ", "Ⓑ", "Ⓒ", "Ⓓ", "Ⓔ", "Ⓕ", "Ⓖ", "Ⓗ",
    "Ⓘ", "Ⓙ", "Ⓚ", "Ⓛ", "Ⓜ", "Ⓝ", "Ⓞ", "Ⓟ", "Ⓠ", "Ⓡ", "Ⓢ", "Ⓣ",
    "Ⓤ", "Ⓥ", "Ⓦ", "Ⓧ", "Ⓨ", "Ⓩ", "U+2C00", "U+2C01", "U+2C02", "U+2C03", "U+2C04", "U+2C05",
    "U+2C06", "U+2C07", "U+2C08", "U+2C09", "U+2C0A", "U+2C0B", "U+2C0C", "U+2C0D", "U+2C0E", "U+2C0F", "U+2C10", "U+2C11",
    "U+2C12", "U+2C13", "U+2C14", "U+2C15", "U+2C16", "U+2C17", "U+2C18", "U+2C19", "U+2C1A", "U+2C1B", "U+2C1C", "U+2C1D",
    "U+2C1E", "U+2C1F", "U+2C20", "U+2C21", "U+2C22", "U+2C23", "U+2C24", "U+2C25", "U+2C26", "U+2C27", "U+2C28", "U+2C29",
    "U+2C2A", "U+2C2B", "U+2C2C", "U+2C2D", "U+2C2E", "U+2C2F", "U+2C60", "U+2C62", "U+2C63", "U+2C64", "U+2C67", "U+2C69",
    "U+2C6B", "U+2C6D", "U+2C6E", "U+2C6F", "U+2C70", "U+2C72", "U+2C75", "U+2C7E", "U+2C7F", "Ⲁ", "Ⲃ", "Ⲅ",
    "Ⲇ", "Ⲉ", "Ⲋ", "Ⲍ", "Ⲏ", "Ⲑ", "Ⲓ", "Ⲕ", "Ⲗ", "Ⲙ", "Ⲛ", "Ⲝ",
    "Ⲟ", "Ⲡ", "Ⲣ", "Ⲥ", "Ⲧ", "Ⲩ", "Ⲫ", "Ⲭ", "Ⲯ", "Ⲱ", "Ⲳ", "Ⲵ",
    "Ⲷ", "Ⲹ", "Ⲻ", "Ⲽ", "Ⲿ", "Ⳁ", "Ⳃ", "Ⳅ", "Ⳇ", "Ⳉ", "Ⳋ", "Ⳍ",
    "Ⳏ", "Ⳑ", "Ⳓ", "Ⳕ", "Ⳗ", "Ⳙ", "Ⳛ", "Ⳝ", "Ⳟ", "Ⳡ", "Ⳣ", "Ⳬ",
    "Ⳮ", "Ⳳ", "U+A640", "U+A642", "U+A644", "U+A646", "U+A648", "U+A64A", "U+A64C", "U+A64E", "U+A650", "U+A652",
    "U+A654", "U+A656", "U+A658", "U+A65A", "U+A65C", "U+A65E", "U+A660", "U+A662", "U+A664", "U+A666", "U+A668", "U+A66A",
    "U+A66C", "Ꚁ", "Ꚃ", "Ꚅ", "Ꚇ", "Ꚉ", "Ꚋ", "Ꚍ", "Ꚏ", "Ꚑ", "Ꚓ", "Ꚕ",
    "Ꚗ", "Ꚙ", "Ꚛ", "U+A722", "U+A724", "U+A726", "U+A728", "U+A72A", "U+A72C", "U+A72E", "U+A732", "U+A734",
    "U+A736", "U+A738", "U+A73A", "U+A73C", "U+A73E", "U+A740", "U+A742", "U+A744", "U+A746", "U+A748", "U+A74A", "U+A74C",
    "U+A74E", "U+A750", "U+A752", "U+A754", "U+A756", "U+A758", "U+A75A", "U+A75C", "U+A75E", "U+A760", "U+A762", "U+A764",
    "U+A766", "U+A768", "U+A76A", "U+A76C", "U+A76E", "U+A779", "U+A77B", "U+A77D", "U+A77E", "Ꞁ", "Ꞃ", "Ꞅ",
    "Ꞇ", "Ꞌ", "Ɥ", "Ꞑ", "Ꞓ", "Ꞗ", "Ꞙ", "Ꞛ", "Ꞝ", "Ꞟ", "Ꞡ", "Ꞣ",
    "Ꞥ", "Ꞧ", "Ꞩ", "Ɦ", "Ɜ", "Ɡ", "Ɬ", "Ɪ", "Ʞ", "Ʇ", "Ʝ", "Ꭓ",
    "Ꞵ", "Ꞷ", "Ꞹ", "Ꞻ", "Ꞽ", "Ꞿ", "Ꟁ", "Ꟃ", "Ꞔ", "Ʂ", "Ᶎ", "Ꟈ",
    "Ꟊ", "Ꟑ", "Ꟗ", "Ꟙ", "Ꟶ", "U+FF21", "U+FF22", "U+FF23", "U+FF24", "U+FF25", "U+FF26", "U+FF27",
    "U+FF28", "U+FF29", "U+FF2A", "U+FF2B", "U+FF2C", "U+FF2D", "U+FF2E", "U+FF2F", "U+FF30", "U+FF31", "U+FF32", "U+FF33",
    "U+FF34", "U+FF35", "U+FF36", "U+FF37", "U+FF38", "U+FF39", "U+FF3A", "U+10400", "U+10401", "U+10402", "U+10403", "U+10404",
    "U+10405", "U+10406", "U+10407", "U+10408", "U+10409", "U+1040A", "U+1040B", "U+1040C", "U+1040D", "U+1040E", "U+1040F", "U+10410",
    "U+10411", "U+10412", "U+10413", "U+10414", "U+10415", "U+10416", "U+10417", "U+10418", "U+10419", "U+1041A", "U+1041B", "U+1041C",
    "U+1041D", "U+1041E", "U+1041F", "U+10420", "U+10421", "U+10422", "U+10423", "U+10424", "U+10425", "U+10426", "U+10427", "U+104B0",
    "U+104B1", "U+104B2", "U+104B3", "U+104B4", "U+104B5", "U+104B6", "U+104B7", "U+104B8", "U+104B9", "U+104BA", "U+104BB", "U+104BC",
    "U+104BD", "U+104BE", "U+104BF", "U+104C0", "U+104C1", "U+104C2", "U+104C3", "U+104C4", "U+104C5", "U+104C6", "U+104C7", "U+104C8",
    "U+104C9", "U+104CA", "U+104CB", "U+104CC", "U+104CD", "U+104CE", "U+104CF", "U+104D0", "U+104D1", "U+104D2", "U+104D3", "U+10570",
    "U+10571", "U+10572", "U+10573", "U+10574", "U+10575", "U+10576", "U+10577", "U+10578", "U+10579", "U+1057A", "U+1057C", "U+1057D",
    "U+1057E", "U+1057F", "U+10580", "U+10581", "U+10582", "U+10583", "U+10584", "U+10585", "U+10586", "U+10587", "U+10588", "U+10589",
    "U+1058A", "U+1058C", "U+1058D", "U+1058E", "U+1058F", "U+10590", "U+10591", "U+10592", "U+10594", "U+10595", "U+10C80", "U+10C81",
    "U+10C82", "U+10C83", "U+10C84", "U+10C85", "U+10C86", "U+10C87", "U+10C88", "U+10C89", "U+10C8A", "U+10C8B", "U+10C8C", "U+10C8D",
    "U+10C8E", "U+10C8F", "U+10C90", "U+10C91", "U+10C92", "U+10C93", "U+10C94", "U+10C95", "U+10C96", "U+10C97", "U+10C98", "U+10C99",
    "U+10C9A", "U+10C9B", "U+10C9C", "U+10C9D", "U+10C9E", "U+10C9F", "U+10CA0", "U+10CA1", "U+10CA2", "U+10CA3", "U+10CA4", "U+10CA5",
    "U+10CA6", "U+10CA7", "U+10CA8", "U+10CA9", "U+10CAA", "U+10CAB", "U+10CAC", "U+10CAD", "U+10CAE", "U+10CAF", "U+10CB0", "U+10CB1",
    "U+10CB2", "U+118A0", "U+118A1", "U+118A2", "U+118A3", "U+118A4", "U+118A5", "U+118A6", "U+118A7", "U+118A8", "U+118A9", "U+118AA",
    "U+118AB", "U+118AC", "U+118AD", "U+118AE", "U+118AF", "U+118B0", "U+118B1", "U+118B2", "U+118B3", "U+118B4", "U+118B5", "U+118B6",
    "U+118B7", "U+118B8", "U+118B9", "U+118BA", "U+118BB", "U+118BC", "U+118BD", "U+118BE", "U+118BF", "U+16E40", "U+16E41", "U+16E42",
    "U+16E43", "U+16E44", "U+16E45", "U+16E46", "U+16E47", "U+16E48", "U+16E49", "U+16E4A", "U+16E4B", "U+16E4C", "U+16E4D", "U+16E4E",
    "U+16E4F", "U+16E50", "U+16E51", "U+16E52", "U+16E53", "U+16E54", "U+16E55", "U+16E56", "U+16E57", "U+16E58", "U+16E59", "U+16E5A",
    "U+16E5B", "U+16E5C", "U+16E5D", "U+16E5E", "U+16E5F", "U+1E900", "U+1E901", "U+1E902", "U+1E903", "U+1E904", "U+1E905", "U+1E906",
    "U+1E907", "U+1E908", "U+1E909", "U+1E90A", "U+1E90B", "U+1E90C", "U+1E90D", "U+1E90E", "U+1E90F", "U+1E910", "U+1E911", "U+1E912",
    "U+1E913", "U+1E914", "U+1E915", "U+1E916", "U+1E917", "U+1E918", "U+1E919", "U+1E91A", "U+1E91B", "U+1E91C", "U+1E91D", "U+1E91E",
    "U+1E91F", "U+1E920", "U+1E921">>

\* LowerChars[i] is the lower case of UpperChars[i].
LowerChars ==
  <<"a", "b", "c", "d", "e", "f", "g", "h", "i", "j", "k", "l",
    "m", "n", "o", "p", "q", "r", "s", "t", "u", "v", "w", "x",
    "y", "z", "à", "á", "â", "ã", "ä", "å", "æ", "ç", "è", "é",
    "ê", "ë", "ì", "í", "î", "ï", "ð", "ñ", "ò", "ó", "ô", "õ",
    "ö", "ø", "ù", "ú", "û", "ü", "ý", "þ", "U+0101", "U+0103", "U+0105", "U+0107",
    "U+0109", "U+010B", "U+010D", "U+010F", "U+0111", "U+0113", "U+0115", "U+0117", "U+0119", "U+011B", "U+011D", "U+011F",
    "U+0121", "U+0123", "U+0125", "U+0127", "U+0129", "U+012B", "U+012D", "U+012F", "U+0133", "U+0135", "U+0137", "U+013A",
    "U+013C", "U+013E", "U+0140", "U+0142", "U+0144", "U+0146", "U+0148", "U+014B", "U+014D", "U+014F", "U+0151", "U+0153",
    "U+0155", "U+0157", "U+0159", "U+015B", "U+015D", "U+015F", "U+0161", "U+0163", "U+0165", "U+0167", "U+0169", "U+016B",
    "U+016D", "U+016F", "U+0171", "U+0173", "U+0175", "U+0177", "ÿ", "U+017A", "U+017C", "U+017E", "U+0253", "ƃ",
    "ƅ", "U+0254", "ƈ", "U+0256", "U+0257", "ƌ", "ǝ", "U+0259", "U+025B", "ƒ", "U+0260", "U+0263",
    "U+0269", "U+0268", "ƙ", "U+026F", "U+0272", "U+0275", "ơ", "ƣ", "ƥ", "ʀ", "ƨ", "ʃ",
    "ƭ", "ʈ", "ư", "ʊ", "ʋ", "ƴ", "ƶ", "ʒ", "ƹ", "ƽ", "ǆ", "ǆ",
    "ǉ", "ǉ", "ǌ", "ǌ", "ǎ", "ǐ", "ǒ", "ǔ", "ǖ", "ǘ", "ǚ", "ǜ",
    "ǟ", "ǡ", "ǣ", "ǥ", "ǧ", "ǩ", "ǫ", "ǭ", "ǯ", "ǳ", "ǳ", "ǵ",
    "ƕ", "ƿ", "ǹ", "ǻ", "ǽ", "ǿ", "U+0201", "U+0203", "U+0205", "U+0207", "U+0209", "U+020B",
    "U+020D", "U+020F", "U+0211", "U+0213", "U+0215", "U+0217", "U+0219", "U+021B", "U+021D", "U+021F", "ƞ", "U+0223",
    "U+0225", "U+0227", "U+0229", "U+022B", "U+022D", "U+022F", "U+0231", "U+0233", "U+2C65", "U+023C", "ƚ", "U+2C66",
    "U+0242", "ƀ", "ʉ", "ʌ", "U+0247", "U+0249", "U+024B", "U+024D", "U+024F", "U+0371", "U+0373", "U+0377",
    "ϳ", "ά", "έ", "ή", "ί", "ό", "ύ", "ώ", "α", "β", "γ", "δ",
    "ε", "ζ", "η", "θ", "ι", "κ", "λ", "μ", "ν", "ξ", "ο", "π",
    "ρ", "τ", "υ", "φ", "χ", "ψ", "ω", "ϊ", "ϋ", "ϗ", "ϙ", "ϛ",
    "ϝ", "ϟ", "ϡ", "ϣ", "ϥ", "ϧ", "ϩ", "ϫ", "ϭ", "ϯ", "θ", "ϸ",
    "ϲ", "ϻ", "U+037B", "U+037C", "U+037D", "U+0450", "U+0451", "U+0452", "U+0453", "U+0454", "U+0455", "U+0456",
    "U+0457", "U+0458", "U+0459", "U+045A", "U+045B", "U+045C", "U+045D", "U+045E", "U+045F", "U+0430", "U+0431", "U+0432",
    "U+0433", "U+0434", "U+0435", "U+0436", "U+0437", "U+0438", "U+0439", "U+043A", "U+043B", "U+043C", "U+043D", "U+043E",
    "U+043F", "U+0440", "U+0441", "U+0442", "U+0443", "U+0444", "U+0445", "U+0446", "U+0447", "U+0448", "U+0449", "U+044A",
    "U+044B", "U+044C", "U+044D", "U+044E", "U+044F", "U+0461", "U+0463", "U+0465", "U+0467", "U+0469", "U+046B", "U+046D",
    "U+046F", "U+0471", "U+0473", "U+0475", "U+0477", "U+0479", "U+047B", "U+047D", "U+047F", "ҁ", "ҋ", "ҍ",
    "ҏ", "ґ", "ғ", "ҕ", "җ", "ҙ", "қ", "ҝ", "ҟ", "ҡ", "ң", "ҥ",
    "ҧ", "ҩ", "ҫ", "ҭ", "ү", "ұ", "ҳ", "ҵ", "ҷ", "ҹ", "һ", "ҽ",
    "ҿ", "ӏ", "ӂ", "ӄ", "ӆ", "ӈ", "ӊ", "ӌ", "ӎ", "ӑ", "ӓ", "ӕ",
    "ӗ", "ә", "ӛ", "ӝ", "ӟ", "ӡ", "ӣ", "ӥ", "ӧ", "ө", "ӫ", "ӭ",
    "ӯ", "ӱ", "ӳ", "ӵ", "ӷ", "ӹ", "ӻ", "ӽ", "ӿ", "U+0501", "U+0503", "U+0505",
    "U+0507", "U+0509", "U+050B", "U+050D", "U+050F", "U+0511", "U+0513", "U+0515", "U+0517", "U+0519", "U+051B", "U+051D",
    "U+051F", "U+0521", "U+0523", "U+0525", "U+0527", "U+0529", "U+052B", "U+052D", "U+052F", "U+0561", "U+0562", "U+0563",
    "U+0564", "U+0565", "U+0566", "U+0567", "U+0568", "U+0569", "U+056A", "U+056B", "U+056C", "U+056D", "U+056E", "U+056F",
    "U+0570", "U+0571", "U+0572", "U+0573", "U+0574", "U+0575", "U+0576", "U+0577", "U+0578", "U+0579", "U+057A", "U+057B",
    "U+057C", "U+057D", "U+057E", "U+057F", "ր", "ց", "ւ", "փ", "ք", "օ", "ֆ", "U+2D00",
    "U+2D01", "U+2D02", "U+2D03", "U+2D04", "U+2D05", "U+2D06", "U+2D07", "U+2D08", "U+2D09", "U+2D0A", "U+2D0B", "U+2D0C",
    "U+2D0D", "U+2D0E", "U+2D0F", "U+2D10", "U+2D11", "U+2D12", "U+2D13", "U+2D14", "U+2D15", "U+2D16", "U+2D17", "U+2D18",
    "U+2D19", "U+2D1A", "U+2D1B", "U+2D1C", "U+2D1D", "U+2D1E", "U+2D1F", "U+2D20", "U+2D21", "U+2D22", "U+2D23", "U+2D24",
    "U+2D25", "U+2D27", "U+2D2D", "U+AB70", "U+AB71", "U+AB72", "U+AB73", "U+AB74", "U+AB75", "U+AB76", "U+AB77", "U+AB78",
    "U+AB79", "U+AB7A", "U+AB7B", "U+AB7C", "U+AB7D", "U+AB7E", "U+AB7F", "ꮀ", "ꮁ", "ꮂ", "ꮃ", "ꮄ",
    "ꮅ", "ꮆ", "ꮇ", "ꮈ", "ꮉ", "ꮊ", "ꮋ", "ꮌ", "ꮍ", "ꮎ", "ꮏ", "ꮐ",
    "ꮑ", "ꮒ", "ꮓ", "ꮔ", "ꮕ", "ꮖ", "ꮗ", "ꮘ", "ꮙ", "ꮚ", "ꮛ", "ꮜ",
    "ꮝ", "ꮞ", "ꮟ", "ꮠ", "ꮡ", "ꮢ", "ꮣ", "ꮤ", "ꮥ", "ꮦ", "ꮧ", "ꮨ",
    "ꮩ", "ꮪ", "ꮫ", "ꮬ", "ꮭ", "ꮮ", "ꮯ", "ꮰ", "ꮱ", "ꮲ", "ꮳ", "ꮴ",
    "ꮵ", "ꮶ", "ꮷ", "ꮸ", "ꮹ", "ꮺ", "ꮻ", "ꮼ", "ꮽ", "ꮾ", "ꮿ", "ᏸ",
    "ᏹ", "ᏺ", "ᏻ", "ᏼ", "ᏽ", "ა", "ბ", "გ", "დ", "ე", "ვ", "ზ",
    "თ", "ი", "კ", "ლ", "მ", "ნ", "ო", "პ", "ჟ", "რ", "ს", "ტ",
    "უ", "ფ", "ქ", "ღ", "ყ", "შ", "ჩ", "ც", "ძ", "წ", "ჭ", "ხ",
    "ჯ", "ჰ", "ჱ", "ჲ", "ჳ", "ჴ", "ჵ", "ჶ", "ჷ", "ჸ", "ჹ", "ჺ",
    "ჽ", "ჾ", "ჿ", "U+1E01", "U+1E03", "U+1E05", "U+1E07", "U+1E09", "U+1E0B", "U+1E0D", "U+1E0F", "U+1E11",
    "U+1E13", "U+1E15", "U+1E17", "U+1E19", "U+1E1B", "U+1E1D", "U+1E1F", "U+1E21", "U+1E23", "U+1E25", "U+1E27", "U+1E29",
    "U+1E2B", "U+1E2D", "U+1E2F", "U+1E31", "U+1E33", "U+1E35", "U+1E37", "U+1E39", "U+1E3B", "U+1E3D", "U+1E3F", "U+1E41",
    "U+1E43", "U+1E45", "U+1E47", "U+1E49", "U+1E4B", "U+1E4D", "U+1E4F", "U+1E51", "U+1E53", "U+1E55", "U+1E57", "U+1E59",
    "U+1E5B", "U+1E5D", "U+1E5F", "U+1E61", "U+1E63", "U+1E65", "U+1E67", "U+1E69", "U+1E6B", "U+1E6D", "U+1E6F", "U+1E71",
    "U+1E73", "U+1E75", "U+1E77", "U+1E79", "U+1E7B", "U+1E7D", "U+1E7F", "ẁ", "ẃ", "ẅ", "ẇ", "ẉ",
    "ẋ", "ẍ", "ẏ", "ẑ", "ẓ", "ẕ", "ß", "ạ", "ả", "ấ", "ầ", "ẩ",
    "ẫ", "ậ", "ắ", "ằ", "ẳ", "ẵ", "ặ", "ẹ", "ẻ", "ẽ", "ế", "ề",
    "ể", "ễ", "ệ", "ỉ", "ị", "ọ", "ỏ", "ố", "ồ", "ổ", "ỗ", "ộ",
    "ớ", "ờ", "ở", "ỡ", "ợ", "ụ", "ủ", "ứ", "ừ", "ử", "ữ", "ự",
    "ỳ", "ỵ", "ỷ", "ỹ", "ỻ", "ỽ", "ỿ", "U+1F00", "U+1F01", "U+1F02", "U+1F03", "U+1F04",
    "U+1F05", "U+1F06", "U+1F07", "U+1F10", "U+1F11", "U+1F12", "U+1F13", "U+1F14", "U+1F15", "U+1F20", "U+1F21", "U+1F22",
    "U+1F23", "U+1F24", "U+1F25", "U+1F26", "U+1F27", "U+1F30", "U+1F31", "U+1F32", "U+1F33", "U+1F34", "U+1F35", "U+1F36",
    "U+1F37", "U+1F40", "U+1F41", "U+1F42", "U+1F43", "U+1F44", "U+1F45", "U+1F51", "U+1F53", "U+1F55", "U+1F57", "U+1F60",
    "U+1F61", "U+1F62", "U+1F63", "U+1F64", "U+1F65", "U+1F66", "U+1F67", "ᾀ", "ᾁ", "ᾂ", "ᾃ", "ᾄ",
    "ᾅ", "ᾆ", "ᾇ", "ᾐ", "ᾑ", "ᾒ", "ᾓ", "ᾔ", "ᾕ", "ᾖ", "ᾗ", "ᾠ",
    "ᾡ", "ᾢ", "ᾣ", "ᾤ", "ᾥ", "ᾦ", "ᾧ", "ᾰ", "ᾱ", "U+1F70", "U+1F71", "ᾳ",
    "U+1F72", "U+1F73", "U+1F74", "U+1F75", "ῃ", "ῐ", "ῑ", "U+1F76", "U+1F77", "ῠ", "ῡ", "U+1F7A",
    "U+1F7B", "ῥ", "U+1F78", "U+1F79", "U+1F7C", "U+1F7D", "ῳ", "ω", "k", "å", "U+214E", "U+2170",
    "U+2171", "U+2172", "U+2173", "U+2174", "U+2175", "U+2176", "U+2177", "U+2178", "U+2179", "U+217A", "U+217B", "U+217C",
    "U+217D", "U+217E", "U+217F", "ↄ", "ⓐ", "ⓑ", "ⓒ", "ⓓ", "ⓔ", "ⓕ", "ⓖ", "ⓗ",
    "ⓘ", "ⓙ", "ⓚ", "ⓛ", "ⓜ", "ⓝ", "ⓞ", "ⓟ", "ⓠ", "ⓡ", "ⓢ", "ⓣ",
    "ⓤ", "ⓥ", "ⓦ", "ⓧ", "ⓨ", "ⓩ", "U+2C30", "U+2C31", "U+2C32", "U+2C33", "U+2C34", "U+2C35",
    "U+2C36", "U+2C37", "U+2C38", "U+2C39", "U+2C3A", "U+2C3B", "U+2C3C", "U+2C3D", "U+2C3E", "U+2C3F", "U+2C40", "U+2C41",
    "U+2C42", "U+2C43", "U+2C44", "U+2C45", "U+2C46", "U+2C47", "U+2C48", "U+2C49", "U+2C4A", "U+2C4B", "U+2C4C", "U+2C4D",
    "U+2C4E", "U+2C4F", "U+2C50", "U+2C51", "U+2C52", "U+2C53", "U+2C54", "U+2C55", "U+2C56", "U+2C57", "U+2C58", "U+2C59",
    "U+2C5A", "U+2C5B", "U+2C5C", "U+2C5D", "U+2C5E", "U+2C5F", "U+2C61", "U+026B", "U+1D7D", "U+027D", "U+2C68", "U+2C6A",
    "U+2C6C", "U+0251", "U+0271", "U+0250", "U+0252", "U+2C73", "U+2C76", "U+023F", "U+0240", "ⲁ", "ⲃ", "ⲅ",
    "ⲇ", "ⲉ", "ⲋ", "ⲍ", "ⲏ", "ⲑ", "ⲓ", "ⲕ", "ⲗ", "ⲙ", "ⲛ", "ⲝ",
    "ⲟ", "ⲡ", "ⲣ", "ⲥ", "ⲧ", "ⲩ", "ⲫ", "ⲭ", "ⲯ", "ⲱ", "ⲳ", "ⲵ",
    "ⲷ", "ⲹ", "ⲻ", "ⲽ", "ⲿ", "ⳁ", "ⳃ", "ⳅ", "ⳇ", "ⳉ", "ⳋ", "ⳍ",
    "ⳏ", "ⳑ", "ⳓ", "ⳕ", "ⳗ", "ⳙ", "ⳛ", "ⳝ", "ⳟ", "ⳡ", "ⳣ", "ⳬ",
    "ⳮ", "ⳳ", "U+A641", "U+A643", "U+A645", "U+A647", "U+A649", "U+A64B", "U+A64D", "U+A64F", "U+A651", "U+A653",
    "U+A655", "U+A657", "U+A659", "U+A65B", "U+A65D", "U+A65F", "U+A661", "U+A663", "U+A665", "U+A667", "U+A669", "U+A66B",
    "U+A66D", "ꚁ", "ꚃ", "ꚅ", "ꚇ", "ꚉ", "ꚋ", "ꚍ", "ꚏ", "ꚑ", "ꚓ", "ꚕ",
    "ꚗ", "ꚙ", "ꚛ", "U+A723", "U+A725", "U+A727", "U+A729", "U+A72B", "U+A72D", "U+A72F", "U+A733", "U+A735",
    "U+A737", "U+A739", "U+A73B", "U+A73D", "U+A73F", "U+A741", "U+A743", "U+A745", "U+A747", "U+A749", "U+A74B", "U+A74D",
    "U+A74F", "U+A751", "U+A753", "U+A755", "U+A757", "U+A759", "U+A75B", "U+A75D", "U+A75F", "U+A761", "U+A763", "U+A765",
    "U+A767", "U+A769", "U+A76B", "U+A76D", "U+A76F", "U+A77A", "U+A77C", "U+1D79", "U+A77F", "ꞁ", "ꞃ", "ꞅ",
    "ꞇ", "ꞌ", "U+0265", "ꞑ", "ꞓ", "ꞗ", "ꞙ", "ꞛ", "ꞝ", "ꞟ", "ꞡ", "ꞣ",
    "ꞥ", "ꞧ", "ꞩ", "U+0266", "U+025C", "U+0261", "U+026C", "U+026A", "ʞ", "ʇ", "ʝ", "U+AB53",
    "ꞵ", "ꞷ", "ꞹ", "ꞻ", "ꞽ", "ꞿ", "ꟁ", "ꟃ", "ꞔ", "ʂ", "ᶎ", "ꟈ",
    "ꟊ", "ꟑ", "ꟗ", "ꟙ", "ꟶ", "U+FF41", "U+FF42", "U+FF43", "U+FF44", "U+FF45", "U+FF46", "U+FF47",
    "U+FF48", "U+FF49", "U+FF4A", "U+FF4B", "U+FF4C", "U+FF4D", "U+FF4E", "U+FF4F", "U+FF50", "U+FF51", "U+FF52", "U+FF53",
    "U+FF54", "U+FF55", "U+FF56", "U+FF57", "U+FF58", "U+FF59", "U+FF5A", "U+10428", "U+10429", "U+1042A", "U+1042B", "U+1042C",
    "U+1042D", "U+1042E", "U+1042F", "U+10430", "U+10431", "U+10432", "U+10433", "U+10434", "U+10435", "U+10436", "U+10437", "U+10438",
    "U+10439", "U+1043A", "U+1043B", "U+1043C", "U+1043D", "U+1043E", "U+1043F", "U+10440", "U+10441", "U+10442", "U+10443", "U+10444",
    "U+10445", "U+10446", "U+10447", "U+10448", "U+10449", "U+1044A", "U+1044B", "U+1044C", "U+1044D", "U+1044E", "U+1044F", "U+104D8",
    "U+104D9", "U+104DA", "U+104DB", "U+104DC", "U+104DD", "U+104DE", "U+104DF", "U+104E0", "U+104E1", "U+104E2", "U+104E3", "U+104E4",
    "U+104E5", "U+104E6", "U+104E7", "U+104E8", "U+104E9", "U+104EA", "U+104EB", "U+104EC", "U+104ED", "U+104EE", "U+104EF", "U+104F0",
    "U+104F1", "U+104F2", "U+104F3", "U+104F4", "U+104F5", "U+104F6", "U+104F7", "U+104F8", "U+104F9", "U+104FA", "U+104FB", "U+10597",
    "U+10598", "U+10599", "U+1059A", "U+1059B", "U+1059C", "U+1059D", "U+1059E", "U+1059F", "U+105A0", "U+105A1", "U+105A3", "U+105A4",
    "U+105A5", "U+105A6", "U+105A7", "U+105A8", "U+105A9", "U+105AA", "U+105AB", "U+105AC", "U+105AD", "U+105AE", "U+105AF", "U+105B0",
    "U+105B1", "U+105B3", "U+105B4", "U+105B5", "U+105B6", "U+105B7", "U+105B8", "U+105B9", "U+105BB", "U+105BC", "U+10CC0", "U+10CC1",
    "U+10CC2", "U+10CC3", "U+10CC4", "U+10CC5", "U+10CC6", "U+10CC7", "U+10CC8", "U+10CC9", "U+10CCA", "U+10CCB", "U+10CCC", "U+10CCD",
    "U+10CCE", "U+10CCF", "U+10CD0", "U+10CD1", "U+10CD2", "U+10CD3", "U+10CD4", "U+10CD5", "U+10CD6", "U+10CD7", "U+10CD8", "U+10CD9",
    "U+10CDA", "U+10CDB", "U+10CDC", "U+10CDD", "U+10CDE", "U+10CDF", "U+10CE0", "U+10CE1", "U+10CE2", "U+10CE3", "U+10CE4", "U+10CE5",
    "U+10CE6", "U+10CE7", "U+10CE8", "U+10CE9", "U+10CEA", "U+10CEB", "U+10CEC", "U+10CED", "U+10CEE", "U+10CEF", "U+10CF0", "U+10CF1",
    "U+10CF2", "U+118C0", "U+118C1", "U+118C2", "U+118C3", "U+118C4", "U+118C5", "U+118C6", "U+118C7", "U+118C8", "U+118C9", "U+118CA",
    "U+118CB", "U+118CC", "U+118CD", "U+118CE", "U+118CF", "U+118D0", "U+118D1", "U+118D2", "U+118D3", "U+118D4", "U+118D5", "U+118D6",
    "U+118D7", "U+118D8", "U+118D9", "U+118DA", "U+118DB", "U+118DC", "U+118DD", "U+118DE", "U+118DF", "U+16E60", "U+16E61", "U+16E62",
    "U+16E63", "U+16E64", "U+16E65", "U+16E66", "U+16E67", "U+16E68", "U+16E69", "U+16E6A", "U+16E6B", "U+16E6C", "U+16E6D", "U+16E6E",
    "U+16E6F", "U+16E70", "U+16E71", "U+16E72", "U+16E73", "U+16E74", "U+16E75", "U+16E76", "U+16E77", "U+16E78", "U+16E79", "U+16E7A",
    "U+16E7B", "U+16E7C", "U+16E7D", "U+16E7E", "U+16E7F", "U+1E922", "U+1E923", "U+1E924", "U+1E925", "U+1E926", "U+1E927", "U+1E928",
    "U+1E929", "U+1E92A", "U+1E92B", "U+1E92C", "U+1E92D", "U+1E92E", "U+1E92F", "U+1E930", "U+1E931", "U+1E932", "U+1E933", "U+1E934",
    "U+1E935", "U+1E936", "U+1E937", "U+1E938", "U+1E939", "U+1E93A", "U+1E93B", "U+1E93C", "U+1E93D", "U+1E93E", "U+1E93F", "U+1E940",
    "U+1E941", "U+1E942", "U+1E943">>

\* The characters with the Unicode property Case_Ignorable, in the Unicode
\* 15.1 of the Node.js 18 the workflow installs.
CaseIgnorable ==
  {"'", ".", ":", "^", "U+0060", "¨", "­", "¯", "´", "·", "¸", "ʰ",
   "ʱ", "ʲ", "ʳ", "ʴ", "ʵ", "ʶ", "ʷ", "ʸ", "ʹ", "ʺ", "ʻ", "ʼ",
   "ʽ", "ʾ", "ʿ", "ˀ", "ˁ", "˂", "˃", "˄", "˅", "ˆ", "ˇ", "ˈ",
   "ˉ", "ˊ", "ˋ", "ˌ", "ˍ", "ˎ", "ˏ", "ː", "ˑ", "˒", "˓", "˔",
   "˕", "˖", "˗", "˘", "˙", "˚", "˛", "˜", "˝", "˞", "˟", "ˠ",
   "ˡ", "ˢ", "ˣ", "ˤ", "˥", "˦", "˧", "˨", "˩", "˪", "˫", "ˬ",
   "˭", "ˮ", "˯", "˰", "˱", "˲", "˳", "˴", "˵", "˶", "˷", "˸",
   "˹", "˺", "˻", "˼", "˽", "˾", "˿", "U+0300", "U+0301", "U+0302", "U+0303", "U+0304",
   "U+0305", "U+0306", "U+0307", "U+0308", "U+0309", "U+030A", "U+030B", "U+030C", "U+030D", "U+030E", "U+030F", "U+0310",
   "U+0311", "U+0312", "U+0313", "U+0314", "U+0315", "U+0316", "U+0317", "U+0318", "U+0319", "U+031A", "U+031B", "U+031C",
   "U+031D", "U+031E", "U+031F", "U+0320", "U+0321", "U+0322", "U+0323", "U+0324", "U+0325", "U+0326", "U+0327", "U+0328",
   "U+0329", "U+032A", "U+032B", "U+032C", "U+032D", "U+032E", "U+032F", "U+0330", "U+0331", "U+0332", "U+0333", "U+0334",
   "U+0335", "U+0336", "U+0337", "U+0338", "U+0339", "U+033A", "U+033B", "U+033C", "U+033D", "U+033E", "U+033F", "U+0340",
   "U+0341", "U+0342", "U+0343", "U+0344", "U+0345", "U+0346", "U+0347", "U+0348", "U+0349", "U+034A", "U+034B", "U+034C",
   "U+034D", "U+034E", "U+034F", "U+0350", "U+0351", "U+0352", "U+0353", "U+0354", "U+0355", "U+0356", "U+0357", "U+0358",
   "U+0359", "U+035A", "U+035B", "U+035C", "U+035D", "U+035E", "U+035F", "U+0360", "U+0361", "U+0362", "U+0363", "U+0364",
   "U+0365", "U+0366", "U+0367", "U+0368", "U+0369", "U+036A", "U+036B", "U+036C", "U+036D", "U+036E", "U+036F", "U+0374",
   "U+0375", "U+037A", "΄", "΅", "·", "҃", "҄", "҅", "҆", "҇", "҈", "҉",
   "U+0559", "U+055F", "֑", "֒", "֓", "֔", "֕", "֖", "֗", "֘", "֙", "֚",
   "֛", "֜", "֝", "֞", "֟", "֠", "֡", "֢", "֣", "֤", "֥", "֦",
   "֧", "֨", "֩", "֪", "֫", "֬", "֭", "֮", "֯", "ְ", "ֱ", "ֲ",
   "ֳ", "ִ", "ֵ", "ֶ", "ַ", "ָ", "ֹ", "ֺ", "ֻ", "ּ", "ֽ", "ֿ",
   "ׁ", "ׂ", "ׄ", "ׅ", "ׇ", "״", "U+0600", "U+0601", "U+0602", "U+0603", "U+0604", "U+0605",
   "U+0610", "U+0611", "U+0612", "U+0613", "U+0614", "U+0615", "U+0616", "U+0617", "U+0618", "U+0619", "U+061A", "U+061C",
   "U+0640", "U+064B", "U+064C", "U+064D", "U+064E", "U+064F", "U+0650", "U+0651", "U+0652", "U+0653", "U+0654", "U+0655",
   "U+0656", "U+0657", "U+0658", "U+0659", "U+065A", "U+065B", "U+065C", "U+065D", "U+065E", "U+065F", "U+0670", "ۖ",
   "ۗ", "ۘ", "ۙ", "ۚ", "ۛ", "ۜ", "۝", "۟", "۠", "ۡ", "ۢ", "ۣ",
   "ۤ", "ۥ", "ۦ", "ۧ", "ۨ", "۪", "۫", "۬", "ۭ", "U+070F", "U+0711", "U+0730",
   "U+0731", "U+0732", "U+0733", "U+0734", "U+0735", "U+0736", "U+0737", "U+0738", "U+0739", "U+073A", "U+073B", "U+073C",
   "U+073D", "U+073E", "U+073F", "U+0740", "U+0741", "U+0742", "U+0743", "U+0744", "U+0745", "U+0746", "U+0747", "U+0748",
   "U+0749", "U+074A", "ަ", "ާ", "ި", "ީ", "ު", "ޫ", "ެ", "ޭ", "ޮ", "ޯ",
   "ް", "߫", "߬", "߭", "߮", "߯", "߰", "߱", "߲", "߳", "ߴ", "ߵ",
   "ߺ", "߽", "U+0816", "U+0817", "U+0818", "U+0819", "U+081A", "U+081B", "U+081C", "U+081D", "U+081E", "U+081F",
   "U+0820", "U+0821", "U+0822", "U+0823", "U+0824", "U+0825", "U+0826", "U+0827", "U+0828", "U+0829", "U+082A", "U+082B",
   "U+082C", "U+082D", "U+0859", "U+085A", "U+085B", "࢈", "࢐", "࢑", "࢘", "࢙", "࢚", "࢛",
   "࢜", "࢝", "࢞", "࢟", "ࣉ", "࣊", "࣋", "࣌", "࣍", "࣎", "࣏", "࣐",
   "࣑", "࣒", "࣓", "ࣔ", "ࣕ", "ࣖ", "ࣗ", "ࣘ", "ࣙ", "ࣚ", "ࣛ", "ࣜ",
   "ࣝ", "ࣞ", "ࣟ", "࣠", "࣡", "࣢", "ࣣ", "ࣤ", "ࣥ", "ࣦ", "ࣧ", "ࣨ",
   "ࣩ", "࣪", "࣫", "࣬", "࣭", "࣮", "࣯", "ࣰ", "ࣱ", "ࣲ", "ࣳ", "ࣴ",
   "ࣵ", "ࣶ", "ࣷ", "ࣸ", "ࣹ", "ࣺ", "ࣻ", "ࣼ", "ࣽ", "ࣾ", "ࣿ", "U+0900",
   "U+0901", "U+0902", "U+093A", "U+093C", "U+0941", "U+0942", "U+0943", "U+0944", "U+0945", "U+0946", "U+0947", "U+0948",
   "U+094D", "U+0951", "U+0952", "U+0953", "U+0954", "U+0955", "U+0956", "U+0957", "U+0962", "U+0963", "U+0971", "ঁ",
   "়", "ু", "ূ", "ৃ", "ৄ", "্", "ৢ", "ৣ", "৾", "U+0A01", "U+0A02", "U+0A3C",
   "U+0A41", "U+0A42", "U+0A47", "U+0A48", "U+0A4B", "U+0A4C", "U+0A4D", "U+0A51", "U+0A70", "U+0A71", "U+0A75", "ઁ",
   "ં", "઼", "ુ", "ૂ", "ૃ", "ૄ", "ૅ", "ે", "ૈ", "્", "ૢ", "ૣ",
   "ૺ", "ૻ", "ૼ", "૽", "૾", "૿", "U+0B01", "U+0B3C", "U+0B3F", "U+0B41", "U+0B42", "U+0B43",
   "U+0B44", "U+0B4D", "U+0B55", "U+0B56", "U+0B62", "U+0B63", "ஂ", "ீ", "்", "U+0C00", "U+0C04", "U+0C3C",
   "U+0C3E", "U+0C3F", "U+0C40", "U+0C46", "U+0C47", "U+0C48", "U+0C4A", "U+0C4B", "U+0C4C", "U+0C4D", "U+0C55", "U+0C56",
   "U+0C62", "U+0C63", "ಁ", "಼", "ಿ", "ೆ", "ೌ", "್", "ೢ", "ೣ", "U+0D00", "U+0D01",
   "U+0D3B", "U+0D3C", "U+0D41", "U+0D42", "U+0D43", "U+0D44", "U+0D4D", "U+0D62", "U+0D63", "ඁ", "්", "ි",
   "ී", "ු", "ූ", "U+0E31", "U+0E34", "U+0E35", "U+0E36", "U+0E37", "U+0E38", "U+0E39", "U+0E3A", "U+0E46",
   "U+0E47", "U+0E48", "U+0E49", "U+0E4A", "U+0E4B", "U+0E4C", "U+0E4D", "U+0E4E", "ັ", "ິ", "ີ", "ຶ",
   "ື", "ຸ", "ູ", "຺", "ົ", "ຼ", "ໆ", "່", "້", "໊", "໋", "໌",
   "ໍ", "໎", "U+0F18", "U+0F19", "U+0F35", "U+0F37", "U+0F39", "U+0F71", "U+0F72", "U+0F73", "U+0F74", "U+0F75",
   "U+0F76", "U+0F77", "U+0F78", "U+0F79", "U+0F7A", "U+0F7B", "U+0F7C", "U+0F7D", "U+0F7E", "ྀ", "ཱྀ", "ྂ",
   "ྃ", "྄", "྆", "྇", "ྍ", "ྎ", "ྏ", "ྐ", "ྑ", "ྒ", "ྒྷ", "ྔ",
   "ྕ", "ྖ", "ྗ", "ྙ", "ྚ", "ྛ", "ྜ", "ྜྷ", "ྞ", "ྟ", "ྠ", "ྡ",
   "ྡྷ", "ྣ", "ྤ", "ྥ", "ྦ", "ྦྷ", "ྨ", "ྩ", "ྪ", "ྫ", "ྫྷ", "ྭ",
   "ྮ", "ྯ", "ྰ", "ྱ", "ྲ", "ླ", "ྴ", "ྵ", "ྶ", "ྷ", "ྸ", "ྐྵ",
   "ྺ", "ྻ", "ྼ", "࿆", "U+102D", "U+102E", "U+102F", "U+1030", "U+1032", "U+1033", "U+1034", "U+1035",
   "U+1036", "U+1037", "U+1039", "U+103A", "U+103D", "U+103E", "U+1058", "U+1059", "U+105E", "U+105F", "U+1060", "U+1071",
   "U+1072", "U+1073", "U+1074", "ႂ", "ႅ", "ႆ", "ႍ", "ႝ", "ჼ", "U+135D", "U+135E", "U+135F",
   "U+1712", "U+1713", "U+1714", "U+1732", "U+1733", "U+1752", "U+1753", "U+1772", "U+1773", "឴", "឵", "ិ",
   "ី", "ឹ", "ឺ", "ុ", "ូ", "ួ", "ំ", "៉", "៊", "់", "៌", "៍",
   "៎", "៏", "័", "៑", "្", "៓", "ៗ", "៝", "U+180B", "U+180C", "U+180D", "U+180E",
   "U+180F", "U+1843", "ᢅ", "ᢆ", "ᢩ", "U+1920", "U+1921", "U+1922", "U+1927", "U+1928", "U+1932", "U+1939",
   "U+193A", "U+193B", "U+1A17", "U+1A18", "U+1A1B", "U+1A56", "U+1A58", "U+1A59", "U+1A5A", "U+1A5B", "U+1A5C", "U+1A5D",
   "U+1A5E", "U+1A60", "U+1A62", "U+1A65", "U+1A66", "U+1A67", "U+1A68", "U+1A69", "U+1A6A", "U+1A6B", "U+1A6C", "U+1A73",
   "U+1A74", "U+1A75", "U+1A76", "U+1A77", "U+1A78", "U+1A79", "U+1A7A", "U+1A7B", "U+1A7C", "U+1A7F", "ᪧ", "᪰",
   "᪱", "᪲", "᪳", "᪴", "᪵", "᪶", "᪷", "᪸", "᪹", "᪺", "᪻", "᪼",
   "᪽", "᪾", "ᪿ", "ᫀ", "᫁", "᫂", "᫃", "᫄", "᫅", "᫆", "᫇", "᫈",
   "᫉", "᫊", "᫋", "ᫌ", "ᫍ", "ᫎ", "U+1B00", "U+1B01", "U+1B02", "U+1B03", "U+1B34", "U+1B36",
   "U+1B37", "U+1B38", "U+1B39", "U+1B3A", "U+1B3C", "U+1B42", "U+1B6B", "U+1B6C", "U+1B6D", "U+1B6E", "U+1B6F", "U+1B70",
   "U+1B71", "U+1B72", "U+1B73", "ᮀ", "ᮁ", "ᮢ", "ᮣ", "ᮤ", "ᮥ", "ᮨ", "ᮩ", "᮫",
   "ᮬ", "ᮭ", "᯦", "ᯨ", "ᯩ", "ᯭ", "ᯯ", "ᯰ", "ᯱ", "U+1C2C", "U+1C2D", "U+1C2E",
   "U+1C2F", "U+1C30", "U+1C31", "U+1C32", "U+1C33", "U+1C36", "U+1C37", "U+1C78", "U+1C79", "U+1C7A", "U+1C7B", "U+1C7C",
   "U+1C7D", "᳐", "᳑", "᳒", "᳔", "᳕", "᳖", "᳗", "᳘", "᳙", "᳚", "᳛",
   "᳜", "᳝", "᳞", "᳟", "᳠", "᳢", "᳣", "᳤", "᳥", "᳦", "᳧", "᳨",
   "᳭", "᳴", "᳸", "᳹", "U+1D2C", "U+1D2D", "U+1D2E", "U+1D2F", "U+1D30", "U+1D31", "U+1D32", "U+1D33",
   "U+1D34", "U+1D35", "U+1D36", "U+1D37", "U+1D38", "U+1D39", "U+1D3A", "U+1D3B", "U+1D3C", "U+1D3D", "U+1D3E", "U+1D3F",
   "U+1D40", "U+1D41", "U+1D42", "U+1D43", "U+1D44", "U+1D45", "U+1D46", "U+1D47", "U+1D48", "U+1D49", "U+1D4A", "U+1D4B",
   "U+1D4C", "U+1D4D", "U+1D4E", "U+1D4F", "U+1D50", "U+1D51", "U+1D52", "U+1D53", "U+1D54", "U+1D55", "U+1D56", "U+1D57",
   "U+1D58", "U+1D59", "U+1D5A", "U+1D5B", "U+1D5C", "U+1D5D", "U+1D5E", "U+1D5F", "U+1D60", "U+1D61", "U+1D62", "U+1D63",
   "U+1D64", "U+1D65", "U+1D66", "U+1D67", "U+1D68", "U+1D69", "U+1D6A", "U+1D78", "ᶛ", "ᶜ", "ᶝ", "ᶞ",
   "ᶟ", "ᶠ", "ᶡ", "ᶢ", "ᶣ", "ᶤ", "ᶥ", "ᶦ", "ᶧ", "ᶨ", "ᶩ", "ᶪ",
   "ᶫ", "ᶬ", "ᶭ", "ᶮ", "ᶯ", "ᶰ", "ᶱ", "ᶲ", "ᶳ", "ᶴ", "ᶵ", "ᶶ",
   "ᶷ", "ᶸ", "ᶹ", "ᶺ", "ᶻ", "ᶼ", "ᶽ", "ᶾ", "ᶿ", "᷀", "᷁", "᷂",
   "᷃", "᷄", "᷅", "᷆", "᷇", "᷈", "᷉", "᷊", "᷋", "᷌", "᷍", "᷎",
   "᷏", "᷐", "᷑", "᷒", "ᷓ", "ᷔ", "ᷕ", "ᷖ", "ᷗ", "ᷘ", "ᷙ", "ᷚ",
   "ᷛ", "ᷜ", "ᷝ", "ᷞ", "ᷟ", "ᷠ", "ᷡ", "ᷢ", "ᷣ", "ᷤ", "ᷥ", "ᷦ",
   "ᷧ", "ᷨ", "ᷩ", "ᷪ", "ᷫ", "ᷬ", "ᷭ", "ᷮ", "ᷯ", "ᷰ", "ᷱ", "ᷲ",
   "ᷳ", "ᷴ", "᷵", "᷶", "᷷", "᷸", "᷹", "᷺", "᷻", "᷼", "᷽", "᷾",
   "᷿", "᾽", "᾿", "῀", "῁", "῍", "῎", "῏", "῝", "῞", "῟", "῭",
   "΅", "`", "´", "῾", "U+200B", "U+200C", "U+200D", "U+200E", "U+200F", "U+2018", "U+2019", "U+2024",
   "U+2027", "U+202A", "U+202B", "U+202C", "U+202D", "U+202E", "U+2060", "U+2061", "U+2062", "U+2063", "U+2064", "U+2066",
   "U+2067", "U+2068", "U+2069", "U+206A", "U+206B", "U+206C", "U+206D", "U+206E", "U+206F", "U+2071", "U+207F", "ₐ",
   "ₑ", "ₒ", "ₓ", "ₔ", "ₕ", "ₖ", "ₗ", "ₘ", "ₙ", "ₚ", "ₛ", "ₜ",
   "⃐", "⃑", "⃒", "⃓", "⃔", "⃕", "⃖", "⃗", "⃘", "⃙", "⃚", "⃛",
   "⃜", "⃝", "⃞", "⃟", "⃠", "⃡", "⃢", "⃣", "⃤", "⃥", "⃦", "⃧",
   "⃨", "⃩", "⃪", "⃫", "⃬", "⃭", "⃮", "⃯", "⃰", "U+2C7C", "U+2C7D", "⳯",
   "⳰", "⳱", "U+2D6F", "U+2D7F", "ⷠ", "ⷡ", "ⷢ", "ⷣ", "ⷤ", "ⷥ", "ⷦ", "ⷧ",
   "ⷨ", "ⷩ", "ⷪ", "ⷫ", "ⷬ", "ⷭ", "ⷮ", "ⷯ", "ⷰ", "ⷱ", "ⷲ", "ⷳ",
   "ⷴ", "ⷵ", "ⷶ", "ⷷ", "ⷸ", "ⷹ", "ⷺ", "ⷻ", "ⷼ", "ⷽ", "ⷾ", "ⷿ",
   "U+2E2F", "U+3005", "U+302A", "U+302B", "U+302C", "U+302D", "U+3031", "U+3032", "U+3033", "U+3034", "U+3035", "U+303B",
   "゙", "゚", "゛", "゜", "ゝ", "ゞ", "ー", "ヽ", "ヾ", "U+A015", "ꓸ", "ꓹ",
   "ꓺ", "ꓻ", "ꓼ", "ꓽ", "U+A60C", "U+A66F", "U+A670", "U+A671", "U+A672", "U+A674", "U+A675", "U+A676",
   "U+A677", "U+A678", "U+A679", "U+A67A", "U+A67B", "U+A67C", "U+A67D", "U+A67F", "ꚜ", "ꚝ", "ꚞ", "ꚟ",
   "꛰", "꛱", "U+A700", "U+A701", "U+A702", "U+A703", "U+A704", "U+A705", "U+A706", "U+A707", "U+A708", "U+A709",
   "U+A70A", "U+A70B", "U+A70C", "U+A70D", "U+A70E", "U+A70F", "U+A710", "U+A711", "U+A712", "U+A713", "U+A714", "U+A715",
   "U+A716", "U+A717", "U+A718", "U+A719", "U+A71A", "U+A71B", "U+A71C", "U+A71D", "U+A71E", "U+A71F", "U+A720", "U+A721",
   "U+A770", "ꞈ", "꞉", "꞊", "ꟲ", "ꟳ", "ꟴ", "ꟸ", "ꟹ", "U+A802", "U+A806", "U+A80B",
   "U+A825", "U+A826", "U+A82C", "꣄", "ꣅ", "꣠", "꣡", "꣢", "꣣", "꣤", "꣥", "꣦",
   "꣧", "꣨", "꣩", "꣪", "꣫", "꣬", "꣭", "꣮", "꣯", "꣰", "꣱", "ꣿ",
   "U+A926", "U+A927", "U+A928", "U+A929", "U+A92A", "U+A92B", "U+A92C", "U+A92D", "U+A947", "U+A948", "U+A949", "U+A94A",
   "U+A94B", "U+A94C", "U+A94D", "U+A94E", "U+A94F", "U+A950", "U+A951", "ꦀ", "ꦁ", "ꦂ", "꦳", "ꦶ",
   "ꦷ", "ꦸ", "ꦹ", "ꦼ", "ꦽ", "ꧏ", "ꧥ", "ꧦ", "U+AA29", "U+AA2A", "U+AA2B", "U+AA2C",
   "U+AA2D", "U+AA2E", "U+AA31", "U+AA32", "U+AA35", "U+AA36", "U+AA43", "U+AA4C", "U+AA70", "U+AA7C", "ꪰ", "ꪲ",
   "ꪳ", "ꪴ", "ꪷ", "ꪸ", "ꪾ", "꪿", "꫁", "ꫝ", "ꫬ", "ꫭ", "ꫳ", "ꫴ",
   "꫶", "U+AB5B", "U+AB5C", "U+AB5D", "U+AB5E", "U+AB5F", "U+AB69", "U+AB6A", "U+AB6B", "ꯥ", "ꯨ", "꯭",
   "U+FB1E", "﮲", "﮳", "﮴", "﮵", "﮶", "﮷", "﮸", "﮹", "﮺", "﮻", "﮼",
   "﮽", "﮾", "﮿", "﯀", "﯁", "﯂", "U+FE00", "U+FE01", "U+FE02", "U+FE03", "U+FE04", "U+FE05",
   "U+FE06", "U+FE07", "U+FE08", "U+FE09", "U+FE0A", "U+FE0B", "U+FE0C", "U+FE0D", "U+FE0E", "U+FE0F", "U+FE13", "U+FE20",
   "U+FE21", "U+FE22", "U+FE23", "U+FE24", "U+FE25", "U+FE26", "U+FE27", "U+FE28", "U+FE29", "U+FE2A", "U+FE2B", "U+FE2C",
   "U+FE2D", "U+FE2E", "U+FE2F", "U+FE52", "U+FE55", "﻿", "U+FF07", "U+FF0E", "U+FF1A", "U+FF3E", "U+FF40", "U+FF70",
   "ﾞ", "ﾟ", "￣", "￹", "￺", "￻", "U+101FD", "U+102E0", "U+10376", "U+10377", "U+10378", "U+10379",
   "U+1037A", "U+10780", "U+10781", "U+10782", "U+10783", "U+10784", "U+10785", "U+10787", "U+10788", "U+10789", "U+1078A", "U+1078B",
   "U+1078C", "U+1078D", "U+1078E", "U+1078F", "U+10790", "U+10791", "U+10792", "U+10793", "U+10794", "U+10795", "U+10796", "U+10797",
   "U+10798", "U+10799", "U+1079A", "U+1079B", "U+1079C", "U+1079D", "U+1079E", "U+1079F", "U+107A0", "U+107A1", "U+107A2", "U+107A3",
   "U+107A4", "U+107A5", "U+107A6", "U+107A7", "U+107A8", "U+107A9", "U+107AA", "U+107AB", "U+107AC", "U+107AD", "U+107AE", "U+107AF",
   "U+107B0", "U+107B2", "U+107B3", "U+107B4", "U+107B5", "U+107B6", "U+107B7", "U+107B8", "U+107B9", "U+107BA", "U+10A01", "U+10A02",
   "U+10A03", "U+10A05", "U+10A06", "U+10A0C", "U+10A0D", "U+10A0E", "U+10A0F", "U+10A38", "U+10A39", "U+10A3A", "U+10A3F", "U+10AE5",
   "U+10AE6", "U+10D24", "U+10D25", "U+10D26", "U+10D27", "U+10EAB", "U+10EAC", "U+10EFD", "U+10EFE", "U+10EFF", "U+10F46", "U+10F47",
   "U+10F48", "U+10F49", "U+10F4A", "U+10F4B", "U+10F4C", "U+10F4D", "U+10F4E", "U+10F4F", "U+10F50", "U+10F82", "U+10F83", "U+10F84",
   "U+10F85", "U+11001", "U+11038", "U+11039", "U+1103A", "U+1103B", "U+1103C", "U+1103D", "U+1103E", "U+1103F", "U+11040", "U+11041",
   "U+11042", "U+11043", "U+11044", "U+11045", "U+11046", "U+11070", "U+11073", "U+11074", "U+1107F", "U+11080", "U+11081", "U+110B3",
   "U+110B4", "U+110B5", "U+110B6", "U+110B9", "U+110BA", "U+110BD", "U+110C2", "U+110CD", "U+11100", "U+11101", "U+11102", "U+11127",
   "U+11128", "U+11129", "U+1112A", "U+1112B", "U+1112D", "U+1112E", "U+1112F", "U+11130", "U+11131", "U+11132", "U+11133", "U+11134",
   "U+11173", "U+11180", "U+11181", "U+111B6", "U+111B7", "U+111B8", "U+111B9", "U+111BA", "U+111BB", "U+111BC", "U+111BD", "U+111BE",
   "U+111C9", "U+111CA", "U+111CB", "U+111CC", "U+111CF", "U+1122F", "U+11230", "U+11231", "U+11234", "U+11236", "U+11237", "U+1123E",
   "U+11241", "U+112DF", "U+112E3", "U+112E4", "U+112E5", "U+112E6", "U+112E7", "U+112E8", "U+112E9", "U+112EA", "U+11300", "U+11301",
   "U+1133B", "U+1133C", "U+11340", "U+11366", "U+11367", "U+11368", "U+11369", "U+1136A", "U+1136B", "U+1136C", "U+11370", "U+11371",
   "U+11372", "U+11373", "U+11374", "U+11438", "U+11439", "U+1143A", "U+1143B", "U+1143C", "U+1143D", "U+1143E", "U+1143F", "U+11442",
   "U+11443", "U+11444", "U+11446", "U+1145E", "U+114B3", "U+114B4", "U+114B5", "U+114B6", "U+114B7", "U+114B8", "U+114BA", "U+114BF",
   "U+114C0", "U+114C2", "U+114C3", "U+115B2", "U+115B3", "U+115B4", "U+115B5", "U+115BC", "U+115BD", "U+115BF", "U+115C0", "U+115DC",
   "U+115DD", "U+11633", "U+11634", "U+11635", "U+11636", "U+11637", "U+11638", "U+11639", "U+1163A", "U+1163D", "U+1163F", "U+11640",
   "U+116AB", "U+116AD", "U+116B0", "U+116B1", "U+116B2", "U+116B3", "U+116B4", "U+116B5", "U+116B7", "U+1171D", "U+1171E", "U+1171F",
   "U+11722", "U+11723", "U+11724", "U+11725", "U+11727", "U+11728", "U+11729", "U+1172A", "U+1172B", "U+1182F", "U+11830", "U+11831",
   "U+11832", "U+11833", "U+11834", "U+11835", "U+11836", "U+11837", "U+11839", "U+1183A", "U+1193B", "U+1193C", "U+1193E", "U+11943",
   "U+119D4", "U+119D5", "U+119D6", "U+119D7", "U+119DA", "U+119DB", "U+119E0", "U+11A01", "U+11A02", "U+11A03", "U+11A04", "U+11A05",
   "U+11A06", "U+11A07", "U+11A08", "U+11A09", "U+11A0A", "U+11A33", "U+11A34", "U+11A35", "U+11A36", "U+11A37", "U+11A38", "U+11A3B",
   "U+11A3C", "U+11A3D", "U+11A3E", "U+11A47", "U+11A51", "U+11A52", "U+11A53", "U+11A54", "U+11A55", "U+11A56", "U+11A59", "U+11A5A",
   "U+11A5B", "U+11A8A", "U+11A8B", "U+11A8C", "U+11A8D", "U+11A8E", "U+11A8F", "U+11A90", "U+11A91", "U+11A92", "U+11A93", "U+11A94",
   "U+11A95", "U+11A96", "U+11A98", "U+11A99", "U+11C30", "U+11C31", "U+11C32", "U+11C33", "U+11C34", "U+11C35", "U+11C36", "U+11C38",
   "U+11C39", "U+11C3A", "U+11C3B", "U+11C3C", "U+11C3D", "U+11C3F", "U+11C92", "U+11C93", "U+11C94", "U+11C95", "U+11C96", "U+11C97",
   "U+11C98", "U+11C99", "U+11C9A", "U+11C9B", "U+11C9C", "U+11C9D", "U+11C9E", "U+11C9F", "U+11CA0", "U+11CA1", "U+11CA2", "U+11CA3",
   "U+11CA4", "U+11CA5", "U+11CA6", "U+11CA7", "U+11CAA", "U+11CAB", "U+11CAC", "U+11CAD", "U+11CAE", "U+11CAF", "U+11CB0", "U+11CB2",
   "U+11CB3", "U+11CB5", "U+11CB6", "U+11D31", "U+11D32", "U+11D33", "U+11D34", "U+11D35", "U+11D36", "U+11D3A", "U+11D3C", "U+11D3D",
   "U+11D3F", "U+11D40", "U+11D41", "U+11D42", "U+11D43", "U+11D44", "U+11D45", "U+11D47", "U+11D90", "U+11D91", "U+11D95", "U+11D97",
   "U+11EF3", "U+11EF4", "U+11F00", "U+11F01", "U+11F36", "U+11F37", "U+11F38", "U+11F39", "U+11F3A", "U+11F40", "U+11F42", "U+13430",
   "U+13431", "U+13432", "U+13433", "U+13434", "U+13435", "U+13436", "U+13437", "U+13438", "U+13439", "U+1343A", "U+1343B", "U+1343C",
   "U+1343D", "U+1343E", "U+1343F", "U+13440", "U+13447", "U+13448", "U+13449", "U+1344A", "U+1344B", "U+1344C", "U+1344D", "U+1344E",
   "U+1344F", "U+13450", "U+13451", "U+13452", "U+13453", "U+13454", "U+13455", "U+16AF0", "U+16AF1", "U+16AF2", "U+16AF3", "U+16AF4",
   "U+16B30", "U+16B31", "U+16B32", "U+16B33", "U+16B34", "U+16B35", "U+16B36", "U+16B40", "U+16B41", "U+16B42", "U+16B43", "U+16F4F",
   "U+16F8F", "U+16F90", "U+16F91", "U+16F92", "U+16F93", "U+16F94", "U+16F95", "U+16F96", "U+16F97", "U+16F98", "U+16F99", "U+16F9A",
   "U+16F9B", "U+16F9C", "U+16F9D", "U+16F9E", "U+16F9F", "U+16FE0", "U+16FE1", "U+16FE3", "U+16FE4", "U+1AFF0", "U+1AFF1", "U+1AFF2",
   "U+1AFF3", "U+1AFF5", "U+1AFF6", "U+1AFF7", "U+1AFF8", "U+1AFF9", "U+1AFFA", "U+1AFFB", "U+1AFFD", "U+1AFFE", "U+1BC9D", "U+1BC9E",
   "U+1BCA0", "U+1BCA1", "U+1BCA2", "U+1BCA3", "U+1CF00", "U+1CF01", "U+1CF02", "U+1CF03", "U+1CF04", "U+1CF05", "U+1CF06", "U+1CF07",
   "U+1CF08", "U+1CF09", "U+1CF0A", "U+1CF0B", "U+1CF0C", "U+1CF0D", "U+1CF0E", "U+1CF0F", "U+1CF10", "U+1CF11", "U+1CF12", "U+1CF13",
   "U+1CF14", "U+1CF15", "U+1CF16", "U+1CF17", "U+1CF18", "U+1CF19", "U+1CF1A", "U+1CF1B", "U+1CF1C", "U+1CF1D", "U+1CF1E", "U+1CF1F",
   "U+1CF20", "U+1CF21", "U+1CF22", "U+1CF23", "U+1CF24", "U+1CF25", "U+1CF26", "U+1CF27", "U+1CF28", "U+1CF29", "U+1CF2A", "U+1CF2B",
   "U+1CF2C", "U+1CF2D", "U+1CF30", "U+1CF31", "U+1CF32", "U+1CF33", "U+1CF34", "U+1CF35", "U+1CF36", "U+1CF37", "U+1CF38", "U+1CF39",
   "U+1CF3A", "U+1CF3B", "U+1CF3C", "U+1CF3D", "U+1CF3E", "U+1CF3F", "U+1CF40", "U+1CF41", "U+1CF42", "U+1CF43", "U+1CF44", "U+1CF45",
   "U+1CF46", "U+1D167", "U+1D168", "U+1D169", "U+1D173", "U+1D174", "U+1D175", "U+1D176", "U+1D177", "U+1D178", "U+1D179", "U+1D17A",
   "U+1D17B", "U+1D17C", "U+1D17D", "U+1D17E", "U+1D17F", "U+1D180", "U+1D181", "U+1D182", "U+1D185", "U+1D186", "U+1D187", "U+1D188",
   "U+1D189", "U+1D18A", "U+1D18B", "U+1D1AA", "U+1D1AB", "U+1D1AC", "U+1D1AD", "U+1D242", "U+1D243", "U+1D244", "U+1DA00", "U+1DA01",
   "U+1DA02", "U+1DA03", "U+1DA04", "U+1DA05", "U+1DA06", "U+1DA07", "U+1DA08", "U+1DA09", "U+1DA0A", "U+1DA0B", "U+1DA0C", "U+1DA0D",
   "U+1DA0E", "U+1DA0F", "U+1DA10", "U+1DA11", "U+1DA12", "U+1DA13", "U+1DA14", "U+1DA15", "U+1DA16", "U+1DA17", "U+1DA18", "U+1DA19",
   "U+1DA1A", "U+1DA1B", "U+1DA1C", "U+1DA1D", "U+1DA1E", "U+1DA1F", "U+1DA20", "U+1DA21", "U+1DA22", "U+1DA23", "U+1DA24", "U+1DA25",
   "U+1DA26", "U+1DA27", "U+1DA28", "U+1DA29", "U+1DA2A", "U+1DA2B", "U+1DA2C", "U+1DA2D", "U+1DA2E", "U+1DA2F", "U+1DA30", "U+1DA31",
   "U+1DA32", "U+1DA33", "U+1DA34", "U+1DA35", "U+1DA36", "U+1DA3B", "U+1DA3C", "U+1DA3D", "U+1DA3E", "U+1DA3F", "U+1DA40", "U+1DA41",
   "U+1DA42", "U+1DA43", "U+1DA44", "U+1DA45", "U+1DA46", "U+1DA47", "U+1DA48", "U+1DA49", "U+1DA4A", "U+1DA4B", "U+1DA4C", "U+1DA4D",
   "U+1DA4E", "U+1DA4F", "U+1DA50", "U+1DA51", "U+1DA52", "U+1DA53", "U+1DA54", "U+1DA55", "U+1DA56", "U+1DA57", "U+1DA58", "U+1DA59",
   "U+1DA5A", "U+1DA5B", "U+1DA5C", "U+1DA5D", "U+1DA5E", "U+1DA5F", "U+1DA60", "U+1DA61", "U+1DA62", "U+1DA63", "U+1DA64", "U+1DA65",
   "U+1DA66", "U+1DA67", "U+1DA68", "U+1DA69", "U+1DA6A", "U+1DA6B", "U+1DA6C", "U+1DA75", "U+1DA84", "U+1DA9B", "U+1DA9C", "U+1DA9D",
   "U+1DA9E", "U+1DA9F", "U+1DAA1", "U+1DAA2", "U+1DAA3", "U+1DAA4", "U+1DAA5", "U+1DAA6", "U+1DAA7", "U+1DAA8", "U+1DAA9", "U+1DAAA",
   "U+1DAAB", "U+1DAAC", "U+1DAAD", "U+1DAAE", "U+1DAAF", "U+1E000", "U+1E001", "U+1E002", "U+1E003", "U+1E004", "U+1E005", "U+1E006",
   "U+1E008", "U+1E009", "U+1E00A", "U+1E00B", "U+1E00C", "U+1E00D", "U+1E00E", "U+1E00F", "U+1E010", "U+1E011", "U+1E012", "U+1E013",
   "U+1E014", "U+1E015", "U+1E016", "U+1E017", "U+1E018", "U+1E01B", "U+1E01C", "U+1E01D", "U+1E01E", "U+1E01F", "U+1E020", "U+1E021",
   "U+1E023", "U+1E024", "U+1E026", "U+1E027", "U+1E028", "U+1E029", "U+1E02A", "U+1E030", "U+1E031", "U+1E032", "U+1E033", "U+1E034",
   "U+1E035", "U+1E036", "U+1E037", "U+1E038", "U+1E039", "U+1E03A", "U+1E03B", "U+1E03C", "U+1E03D", "U+1E03E", "U+1E03F", "U+1E040",
   "U+1E041", "U+1E042", "U+1E043", "U+1E044", "U+1E045", "U+1E046", "U+1E047", "U+1E048", "U+1E049", "U+1E04A", "U+1E04B", "U+1E04C",
   "U+1E04D", "U+1E04E", "U+1E04F", "U+1E050", "U+1E051", "U+1E052", "U+1E053", "U+1E054", "U+1E055", "U+1E056", "U+1E057", "U+1E058",
   "U+1E059", "U+1E05A", "U+1E05B", "U+1E05C", "U+1E05D", "U+1E05E", "U+1E05F", "U+1E060", "U+1E061", "U+1E062", "U+1E063", "U+1E064",
   "U+1E065", "U+1E066", "U+1E067", "U+1E068", "U+1E069", "U+1E06A", "U+1E06B", "U+1E06C", "U+1E06D", "U+1E08F", "U+1E130", "U+1E131",
   "U+1E132", "U+1E133", "U+1E134", "U+1E135", "U+1E136", "U+1E137", "U+1E138", "U+1E139", "U+1E13A", "U+1E13B", "U+1E13C", "U+1E13D",
   "U+1E2AE", "U+1E2EC", "U+1E2ED", "U+1E2EE", "U+1E2EF", "U+1E4EB", "U+1E4EC", "U+1E4ED", "U+1E4EE", "U+1E4EF", "U+1E8D0", "U+1E8D1",
   "U+1E8D2", "U+1E8D3", "U+1E8D4", "U+1E8D5", "U+1E8D6", "U+1E944", "U+1E945", "U+1E946", "U+1E947", "U+1E948", "U+1E949", "U+1E94A",
   "U+1E94B", "U+1F3FB", "U+1F3FC", "U+1F3FD", "U+1F3FE", "U+1F3FF", "U+E0001", "U+E0020", "U+E0021", "U+E0022", "U+E0023", "U+E0024",
   "U+E0025", "U+E0026", "U+E0027", "U+E0028", "U+E0029", "U+E002A", "U+E002B", "U+E002C", "U+E002D", "U+E002E", "U+E002F", "U+E0030",
   "U+E0031", "U+E0032", "U+E0033", "U+E0034", "U+E0035", "U+E0036", "U+E0037", "U+E0038", "U+E0039", "U+E003A", "U+E003B", "U+E003C",
   "U+E003D", "U+E003E", "U+E003F", "U+E0040", "U+E0041", "U+E0042", "U+E0043", "U+E0044", "U+E0045", "U+E0046", "U+E0047", "U+E0048",
   "U+E0049", "U+E004A", "U+E004B", "U+E004C", "U+E004D", "U+E004E", "U+E004F", "U+E0050", "U+E0051", "U+E0052", "U+E0053", "U+E0054",
   "U+E0055", "U+E0056", "U+E0057", "U+E0058", "U+E0059", "U+E005A", "U+E005B", "U+E005C", "U+E005D", "U+E005E", "U+E005F", "U+E0060",
   "U+E0061", "U+E0062", "U+E0063", "U+E0064", "U+E0065", "U+E0066", "U+E0067", "U+E0068", "U+E0069", "U+E006A", "U+E006B", "U+E006C",
   "U+E006D", "U+E006E", "U+E006F", "U+E0070", "U+E0071", "U+E0072", "U+E0073", "U+E0074", "U+E0075", "U+E0076", "U+E0077", "U+E0078",
   "U+E0079", "U+E007A", "U+E007B", "U+E007C", "U+E007D", "U+E007E", "U+E007F", "U+E0100", "U+E0101", "U+E0102", "U+E0103", "U+E0104",
   "U+E0105", "U+E0106", "U+E0107", "U+E0108", "U+E0109", "U+E010A", "U+E010B", "U+E010C", "U+E010D", "U+E010E", "U+E010F", "U+E0110",
   "U+E0111", "U+E0112", "U+E0113", "U+E0114", "U+E0115", "U+E0116", "U+E0117", "U+E0118", "U+E0119", "U+E011A", "U+E011B", "U+E011C",
   "U+E011D", "U+E011E", "U+E011F", "U+E0120", "U+E0121", "U+E0122", "U+E0123", "U+E0124", "U+E0125", "U+E0126", "U+E0127", "U+E0128",
   "U+E0129", "U+E012A", "U+E012B", "U+E012C", "U+E012D", "U+E012E", "U+E012F", "U+E0130", "U+E0131", "U+E0132", "U+E0133", "U+E0134",
   "U+E0135", "U+E0136", "U+E0137", "U+E0138", "U+E0139", "U+E013A", "U+E013B", "U+E013C", "U+E013D", "U+E013E", "U+E013F", "U+E0140",
   "U+E0141", "U+E0142", "U+E0143", "U+E0144", "U+E0145", "U+E0146", "U+E0147", "U+E0148", "U+E0149", "U+E014A", "U+E014B", "U+E014C",
   "U+E014D", "U+E014E", "U+E014F", "U+E0150", "U+E0151", "U+E0152", "U+E0153", "U+E0154", "U+E0155", "U+E0156", "U+E0157", "U+E0158",
   "U+E0159", "U+E015A", "U+E015B", "U+E015C", "U+E015D", "U+E015E", "U+E015F", "U+E0160", "U+E0161", "U+E0162", "U+E0163", "U+E0164",
   "U+E0165", "U+E0166", "U+E0167", "U+E0168", "U+E0169", "U+E016A", "U+E016B", "U+E016C", "U+E016D", "U+E016E", "U+E016F", "U+E0170",
   "U+E0171", "U+E0172", "U+E0173", "U+E0174", "U+E0175", "U+E0176", "U+E0177", "U+E0178", "U+E0179", "U+E017A", "U+E017B", "U+E017C",
   "U+E017D", "U+E017E", "U+E017F", "U+E0180", "U+E0181", "U+E0182", "U+E0183", "U+E0184", "U+E0185", "U+E0186", "U+E0187", "U+E0188",
   "U+E0189", "U+E018A", "U+E018B", "U+E018C", "U+E018D", "U+E018E", "U+E018F", "U+E0190", "U+E0191", "U+E0192", "U+E0193", "U+E0194",
   "U+E0195", "U+E0196", "U+E0197", "U+E0198", "U+E0199", "U+E019A", "U+E019B", "U+E019C", "U+E019D", "U+E019E", "U+E019F", "U+E01A0",
   "U+E01A1", "U+E01A2", "U+E01A3", "U+E01A4", "U+E01A5", "U+E01A6", "U+E01A7", "U+E01A8", "U+E01A9", "U+E01AA", "U+E01AB", "U+E01AC",
   "U+E01AD", "U+E01AE", "U+E01AF", "U+E01B0", "U+E01B1", "U+E01B2", "U+E01B3", "U+E01B4", "U+E01B5", "U+E01B6", "U+E01B7", "U+E01B8",
   "U+E01B9", "U+E01BA", "U+E01BB", "U+E01BC", "U+E01BD", "U+E01BE", "U+E01BF", "U+E01C0", "U+E01C1", "U+E01C2", "U+E01C3", "U+E01C4",
   "U+E01C5", "U+E01C6", "U+E01C7", "U+E01C8", "U+E01C9", "U+E01CA", "U+E01CB", "U+E01CC", "U+E01CD", "U+E01CE", "U+E01CF", "U+E01D0",
   "U+E01D1", "U+E01D2", "U+E01D3", "U+E01D4", "U+E01D5", "U+E01D6", "U+E01D7", "U+E01D8", "U+E01D9", "U+E01DA", "U+E01DB", "U+E01DC",
   "U+E01DD", "U+E01DE", "U+E01DF", "U+E01E0", "U+E01E1", "U+E01E2", "U+E01E3", "U+E01E4", "U+E01E5", "U+E01E6", "U+E01E7", "U+E01E8",
   "U+E01E9", "U+E01EA", "U+E01EB", "U+E01EC", "U+E01ED", "U+E01EE", "U+E01EF"}

\* The characters with the Unicode property Cased that are not
\* Case_Ignorable (Unicode 15.1).
CasedLetters ==
  {"A", "B", "C", "D", "E", "F", "G", "H", "I", "J", "K", "L",
   "M", "N", "O", "P", "Q", "R", "S", "T", "U", "V", "W", "X",
   "Y", "Z", "a", "b", "c", "d", "e", "f", "g", "h", "i", "j",
   "k", "l", "m", "n", "o", "p", "q", "r", "s", "t", "u", "v",
   "w", "x", "y", "z", "ª", "µ", "º", "À", "Á", "Â", "Ã", "Ä",
   "Å", "Æ", "Ç", "È", "É", "Ê", "Ë", "Ì", "Í", "Î", "Ï", "Ð",
   "Ñ", "Ò", "Ó", "Ô", "Õ", "Ö", "Ø", "Ù", "Ú", "Û", "Ü", "Ý",
   "Þ", "ß", "à", "á", "â", "ã", "ä", "å", "æ", "ç", "è", "é",
   "ê", "ë", "ì", "í", "î", "ï", "ð", "ñ", "ò", "ó", "ô", "õ",
   "ö", "ø", "ù", "ú", "û", "ü", "ý", "þ", "ÿ", "U+0100", "U+0101", "U+0102",
   "U+0103", "U+0104", "U+0105", "U+0106", "U+0107", "U+0108", "U+0109", "U+010A", "U+010B", "U+010C", "U+010D", "U+010E",
   "U+010F", "U+0110", "U+0111", "U+0112", "U+0113", "U+0114", "U+0115", "U+0116", "U+0117", "U+0118", "U+0119", "U+011A",
   "U+011B", "U+011C", "U+011D", "U+011E", "U+011F", "U+0120", "U+0121", "U+0122", "U+0123", "U+0124", "U+0125", "U+0126",
   "U+0127", "U+0128", "U+0129", "U+012A", "U+012B", "U+012C", "U+012D", "U+012E", "U+012F", "U+0130", "U+0131", "U+0132",
   "U+0133", "U+0134", "U+0135", "U+0136", "U+0137", "U+0138", "U+0139", "U+013A", "U+013B", "U+013C", "U+013D", "U+013E",
   "U+013F", "U+0140", "U+0141", "U+0142", "U+0143", "U+0144", "U+0145", "U+0146", "U+0147", "U+0148", "U+0149", "U+014A",
   "U+014B", "U+014C", "U+014D", "U+014E", "U+014F", "U+0150", "U+0151", "U+0152", "U+0153", "U+0154", "U+0155", "U+0156",
   "U+0157", "U+0158", "U+0159", "U+015A", "U+015B", "U+015C", "U+015D", "U+015E", "U+015F", "U+0160", "U+0161", "U+0162",
   "U+0163", "U+0164", "U+0165", "U+0166", "U+0167", "U+0168", "U+0169", "U+016A", "U+016B", "U+016C", "U+016D", "U+016E",
   "U+016F", "U+0170", "U+0171", "U+0172", "U+0173", "U+0174", "U+0175", "U+0176", "U+0177", "U+0178", "U+0179", "U+017A",
   "U+017B", "U+017C", "U+017D", "U+017E", "U+017F", "ƀ", "Ɓ", "Ƃ", "ƃ", "Ƅ", "ƅ", "Ɔ",
   "Ƈ", "ƈ", "Ɖ", "Ɗ", "Ƌ", "ƌ", "ƍ", "Ǝ", "Ə", "Ɛ", "Ƒ", "ƒ",
   "Ɠ", "Ɣ", "ƕ", "Ɩ", "Ɨ", "Ƙ", "ƙ", "ƚ", "ƛ", "Ɯ", "Ɲ", "ƞ",
   "Ɵ", "Ơ", "ơ", "Ƣ", "ƣ", "Ƥ", "ƥ", "Ʀ", "Ƨ", "ƨ", "Ʃ", "ƪ",
   "ƫ", "Ƭ", "ƭ", "Ʈ", "Ư", "ư", "Ʊ", "Ʋ", "Ƴ", "ƴ", "Ƶ", "ƶ",
   "Ʒ", "Ƹ", "ƹ", "ƺ", "Ƽ", "ƽ", "ƾ", "ƿ", "Ǆ", "ǅ", "ǆ", "Ǉ",
   "ǈ", "ǉ", "Ǌ", "ǋ", "ǌ", "Ǎ", "ǎ", "Ǐ", "ǐ", "Ǒ", "ǒ", "Ǔ",
   "ǔ", "Ǖ", "ǖ", "Ǘ", "ǘ", "Ǚ", "ǚ", "Ǜ", "ǜ", "ǝ", "Ǟ", "ǟ",
   "Ǡ", "ǡ", "Ǣ", "ǣ", "Ǥ", "ǥ", "Ǧ", "ǧ", "Ǩ", "ǩ", "Ǫ", "ǫ",
   "Ǭ", "ǭ", "Ǯ", "ǯ", "ǰ", "Ǳ", "ǲ", "ǳ", "Ǵ", "ǵ", "Ƕ", "Ƿ",
   "Ǹ", "ǹ", "Ǻ", "ǻ", "Ǽ", "ǽ", "Ǿ", "ǿ", "U+0200", "U+0201", "U+0202", "U+0203",
   "U+0204", "U+0205", "U+0206", "U+0207", "U+0208", "U+0209", "U+020A", "U+020B", "U+020C", "U+020D", "U+020E", "U+020F",
   "U+0210", "U+0211", "U+0212", "U+0213", "U+0214", "U+0215", "U+0216", "U+0217", "U+0218", "U+0219", "U+021A", "U+021B",
   "U+021C", "U+021D", "U+021E", "U+021F", "U+0220", "U+0221", "U+0222", "U+0223", "U+0224", "U+0225", "U+0226", "U+0227",
   "U+0228", "U+0229", "U+022A", "U+022B", "U+022C", "U+022D", "U+022E", "U+022F", "U+0230", "U+0231", "U+0232", "U+0233",
   "U+0234", "U+0235", "U+0236", "U+0237", "U+0238", "U+0239", "U+023A", "U+023B", "U+023C", "U+023D", "U+023E", "U+023F",
   "U+0240", "U+0241", "U+0242", "U+0243", "U+0244", "U+0245", "U+0246", "U+0247", "U+0248", "U+0249", "U+024A", "U+024B",
   "U+024C", "U+024D", "U+024E", "U+024F", "U+0250", "U+0251", "U+0252", "U+0253", "U+0254", "U+0255", "U+0256", "U+0257",
   "U+0258", "U+0259", "U+025A", "U+025B", "U+025C", "U+025D", "U+025E", "U+025F", "U+0260", "U+0261", "U+0262", "U+0263",
   "U+0264", "U+0265", "U+0266", "U+0267", "U+0268", "U+0269", "U+026A", "U+026B", "U+026C", "U+026D", "U+026E", "U+026F",
   "U+0270", "U+0271", "U+0272", "U+0273", "U+0274", "U+0275", "U+0276", "U+0277", "U+0278", "U+0279", "U+027A", "U+027B",
   "U+027C", "U+027D", "U+027E", "U+027F", "ʀ", "ʁ", "ʂ", "ʃ", "ʄ", "ʅ", "ʆ", "ʇ",
   "ʈ", "ʉ", "ʊ", "ʋ", "ʌ", "ʍ", "ʎ", "ʏ", "ʐ", "ʑ", "ʒ", "ʓ",
   "ʕ", "ʖ", "ʗ", "ʘ", "ʙ", "ʚ", "ʛ", "ʜ", "ʝ", "ʞ", "ʟ", "ʠ",
   "ʡ", "ʢ", "ʣ", "ʤ", "ʥ", "ʦ", "ʧ", "ʨ", "ʩ", "ʪ", "ʫ", "ʬ",
   "ʭ", "ʮ", "ʯ", "U+0370", "U+0371", "U+0372", "U+0373", "U+0376", "U+0377", "U+037B", "U+037C", "U+037D",
   "U+037F", "Ά", "Έ", "Ή", "Ί", "Ό", "Ύ", "Ώ", "ΐ", "Α", "Β", "Γ",
   "Δ", "Ε", "Ζ", "Η", "Θ", "Ι", "Κ", "Λ", "Μ", "Ν", "Ξ", "Ο",
   "Π", "Ρ", "Σ", "Τ", "Υ", "Φ", "Χ", "Ψ", "Ω", "Ϊ", "Ϋ", "ά",
   "έ", "ή", "ί", "ΰ", "α", "β", "γ", "δ", "ε", "ζ", "η", "θ",
   "ι", "κ", "λ", "μ", "ν", "ξ", "ο", "π", "ρ", "ς", "σ", "τ",
   "υ", "φ", "χ", "ψ", "ω", "ϊ", "ϋ", "ό", "ύ", "ώ", "Ϗ", "ϐ",
   "ϑ", "ϒ", "ϓ", "ϔ", "ϕ", "ϖ", "ϗ", "Ϙ", "ϙ", "Ϛ", "ϛ", "Ϝ",
   "ϝ", "Ϟ", "ϟ", "Ϡ", "ϡ", "Ϣ", "ϣ", "Ϥ", "ϥ", "Ϧ", "ϧ", "Ϩ",
   "ϩ", "Ϫ", "ϫ", "Ϭ", "ϭ", "Ϯ", "ϯ", "ϰ", "ϱ", "ϲ", "ϳ", "ϴ",
   "ϵ", "Ϸ", "ϸ", "Ϲ", "Ϻ", "ϻ", "ϼ", "Ͻ", "Ͼ", "Ͽ", "U+0400", "U+0401",
   "U+0402", "U+0403", "U+0404", "U+0405", "U+0406", "U+0407", "U+0408", "U+0409", "U+040A", "U+040B", "U+040C", "U+040D",
   "U+040E", "U+040F", "U+0410", "U+0411", "U+0412", "U+0413", "U+0414", "U+0415", "U+0416", "U+0417", "U+0418", "U+0419",
   "U+041A", "U+041B", "U+041C", "U+041D", "U+041E", "U+041F", "U+0420", "U+0421", "U+0422", "U+0423", "U+0424", "U+0425",
   "U+0426", "U+0427", "U+0428", "U+0429", "U+042A", "U+042B", "U+042C", "U+042D", "U+042E", "U+042F", "U+0430", "U+0431",
   "U+0432", "U+0433", "U+0434", "U+0435", "U+0436", "U+0437", "U+0438", "U+0439", "U+043A", "U+043B", "U+043C", "U+043D",
   "U+043E", "U+043F", "U+0440", "U+0441", "U+0442", "U+0443", "U+0444", "U+0445", "U+0446", "U+0447", "U+0448", "U+0449",
   "U+044A", "U+044B", "U+044C", "U+044D", "U+044E", "U+044F", "U+0450", "U+0451", "U+0452", "U+0453", "U+0454", "U+0455",
   "U+0456", "U+0457", "U+0458", "U+0459", "U+045A", "U+045B", "U+045C", "U+045D", "U+045E", "U+045F", "U+0460", "U+0461",
   "U+0462", "U+0463", "U+0464", "U+0465", "U+0466", "U+0467", "U+0468", "U+0469", "U+046A", "U+046B", "U+046C", "U+046D",
   "U+046E", "U+046F", "U+0470", "U+0471", "U+0472", "U+0473", "U+0474", "U+0475", "U+0476", "U+0477", "U+0478", "U+0479",
   "U+047A", "U+047B", "U+047C", "U+047D", "U+047E", "U+047F", "Ҁ", "ҁ", "Ҋ", "ҋ", "Ҍ", "ҍ",
   "Ҏ", "ҏ", "Ґ", "ґ", "Ғ", "ғ", "Ҕ", "ҕ", "Җ", "җ", "Ҙ", "ҙ",
   "Қ", "қ", "Ҝ", "ҝ", "Ҟ", "ҟ", "Ҡ", "ҡ", "Ң", "ң", "Ҥ", "ҥ",
   "Ҧ", "ҧ", "Ҩ", "ҩ", "Ҫ", "ҫ", "Ҭ", "ҭ", "Ү", "ү", "Ұ", "ұ",
   "Ҳ", "ҳ", "Ҵ", "ҵ", "Ҷ", "ҷ", "Ҹ", "ҹ", "Һ", "һ", "Ҽ", "ҽ",
   "Ҿ", "ҿ", "Ӏ", "Ӂ", "ӂ", "Ӄ", "ӄ", "Ӆ", "ӆ", "Ӈ", "ӈ", "Ӊ",
   "ӊ", "Ӌ", "ӌ", "Ӎ", "ӎ", "ӏ", "Ӑ", "ӑ", "Ӓ", "ӓ", "Ӕ", "ӕ",
   "Ӗ", "ӗ", "Ә", "ә", "Ӛ", "ӛ", "Ӝ", "ӝ", "Ӟ", "ӟ", "Ӡ", "ӡ",
   "Ӣ", "ӣ", "Ӥ", "ӥ", "Ӧ", "ӧ", "Ө", "ө", "Ӫ", "ӫ", "Ӭ", "ӭ",
   "Ӯ", "ӯ", "Ӱ", "ӱ", "Ӳ", "ӳ", "Ӵ", "ӵ", "Ӷ", "ӷ", "Ӹ", "ӹ",
   "Ӻ", "ӻ", "Ӽ", "ӽ", "Ӿ", "ӿ", "U+0500", "U+0501", "U+0502", "U+0503", "U+0504", "U+0505",
   "U+0506", "U+0507", "U+0508", "U+0509", "U+050A", "U+050B", "U+050C", "U+050D", "U+050E", "U+050F", "U+0510", "U+0511",
   "U+0512", "U+0513", "U+0514", "U+0515", "U+0516", "U+0517", "U+0518", "U+0519", "U+051A", "U+051B", "U+051C", "U+051D",
   "U+051E", "U+051F", "U+0520", "U+0521", "U+0522", "U+0523", "U+0524", "U+0525", "U+0526", "U+0527", "U+0528", "U+0529",
   "U+052A", "U+052B", "U+052C", "U+052D", "U+052E", "U+052F", "U+0531", "U+0532", "U+0533", "U+0534", "U+0535", "U+0536",
   "U+0537", "U+0538", "U+0539", "U+053A", "U+053B", "U+053C", "U+053D", "U+053E", "U+053F", "U+0540", "U+0541", "U+0542",
   "U+0543", "U+0544", "U+0545", "U+0546", "U+0547", "U+0548", "U+0549", "U+054A", "U+054B", "U+054C", "U+054D", "U+054E",
   "U+054F", "U+0550", "U+0551", "U+0552", "U+0553", "U+0554", "U+0555", "U+0556", "U+0560", "U+0561", "U+0562", "U+0563",
   "U+0564", "U+0565", "U+0566", "U+0567", "U+0568", "U+0569", "U+056A", "U+056B", "U+056C", "U+056D", "U+056E", "U+056F",
   "U+0570", "U+0571", "U+0572", "U+0573", "U+0574", "U+0575", "U+0576", "U+0577", "U+0578", "U+0579", "U+057A", "U+057B",
   "U+057C", "U+057D", "U+057E", "U+057F", "ր", "ց", "ւ", "փ", "ք", "օ", "ֆ", "և",
   "ֈ", "Ⴀ", "Ⴁ", "Ⴂ", "Ⴃ", "Ⴄ", "Ⴅ", "Ⴆ", "Ⴇ", "Ⴈ", "Ⴉ", "Ⴊ",
   "Ⴋ", "Ⴌ", "Ⴍ", "Ⴎ", "Ⴏ", "Ⴐ", "Ⴑ", "Ⴒ", "Ⴓ", "Ⴔ", "Ⴕ", "Ⴖ",
   "Ⴗ", "Ⴘ", "Ⴙ", "Ⴚ", "Ⴛ", "Ⴜ", "Ⴝ", "Ⴞ", "Ⴟ", "Ⴠ", "Ⴡ", "Ⴢ",
   "Ⴣ", "Ⴤ", "Ⴥ", "Ⴧ", "Ⴭ", "ა", "ბ", "გ", "დ", "ე", "ვ", "ზ",
   "თ", "ი", "კ", "ლ", "მ", "ნ", "ო", "პ", "ჟ", "რ", "ს", "ტ",
   "უ", "ფ", "ქ", "ღ", "ყ", "შ", "ჩ", "ც", "ძ", "წ", "ჭ", "ხ",
   "ჯ", "ჰ", "ჱ", "ჲ", "ჳ", "ჴ", "ჵ", "ჶ", "ჷ", "ჸ", "ჹ", "ჺ",
   "ჽ", "ჾ", "ჿ", "Ꭰ", "Ꭱ", "Ꭲ", "Ꭳ", "Ꭴ", "Ꭵ", "Ꭶ", "Ꭷ", "Ꭸ",
   "Ꭹ", "Ꭺ", "Ꭻ", "Ꭼ", "Ꭽ", "Ꭾ", "Ꭿ", "Ꮀ", "Ꮁ", "Ꮂ", "Ꮃ", "Ꮄ",
   "Ꮅ", "Ꮆ", "Ꮇ", "Ꮈ", "Ꮉ", "Ꮊ", "Ꮋ", "Ꮌ", "Ꮍ", "Ꮎ", "Ꮏ", "Ꮐ",
   "Ꮑ", "Ꮒ", "Ꮓ", "Ꮔ", "Ꮕ", "Ꮖ", "Ꮗ", "Ꮘ", "Ꮙ", "Ꮚ", "Ꮛ", "Ꮜ",
   "Ꮝ", "Ꮞ", "Ꮟ", "Ꮠ", "Ꮡ", "Ꮢ", "Ꮣ", "Ꮤ", "Ꮥ", "Ꮦ", "Ꮧ", "Ꮨ",
   "Ꮩ", "Ꮪ", "Ꮫ", "Ꮬ", "Ꮭ", "Ꮮ", "Ꮯ", "Ꮰ", "Ꮱ", "Ꮲ", "Ꮳ", "Ꮴ",
   "Ꮵ", "Ꮶ", "Ꮷ", "Ꮸ", "Ꮹ", "Ꮺ", "Ꮻ", "Ꮼ", "Ꮽ", "Ꮾ", "Ꮿ", "Ᏸ",
   "Ᏹ", "Ᏺ", "Ᏻ", "Ᏼ", "Ᏽ", "ᏸ", "ᏹ", "ᏺ", "ᏻ", "ᏼ", "ᏽ", "ᲀ",
   "ᲁ", "ᲂ", "ᲃ", "ᲄ", "ᲅ", "ᲆ", "ᲇ", "ᲈ", "Ა", "Ბ", "Გ", "Დ",
   "Ე", "Ვ", "Ზ", "Თ", "Ი", "Კ", "Ლ", "Მ", "Ნ", "Ო", "Პ", "Ჟ",
   "Რ", "Ს", "Ტ", "Უ", "Ფ", "Ქ", "Ღ", "Ყ", "Შ", "Ჩ", "Ც", "Ძ",
   "Წ", "Ჭ", "Ხ", "Ჯ", "Ჰ", "Ჱ", "Ჲ", "Ჳ", "Ჴ", "Ჵ", "Ჶ", "Ჷ",
   "Ჸ", "Ჹ", "Ჺ", "Ჽ", "Ჾ", "Ჿ", "U+1D00", "U+1D01", "U+1D02", "U+1D03", "U+1D04", "U+1D05",
   "U+1D06", "U+1D07", "U+1D08", "U+1D09", "U+1D0A", "U+1D0B", "U+1D0C", "U+1D0D", "U+1D0E", "U+1D0F", "U+1D10", "U+1D11",
   "U+1D12", "U+1D13", "U+1D14", "U+1D15", "U+1D16", "U+1D17", "U+1D18", "U+1D19", "U+1D1A", "U+1D1B", "U+1D1C", "U+1D1D",
   "U+1D1E", "U+1D1F", "U+1D20", "U+1D21", "U+1D22", "U+1D23", "U+1D24", "U+1D25", "U+1D26", "U+1D27", "U+1D28", "U+1D29",
   "U+1D2A", "U+1D2B", "U+1D6B", "U+1D6C", "U+1D6D", "U+1D6E", "U+1D6F", "U+1D70", "U+1D71", "U+1D72", "U+1D73", "U+1D74",
   "U+1D75", "U+1D76", "U+1D77", "U+1D79", "U+1D7A", "U+1D7B", "U+1D7C", "U+1D7D", "U+1D7E", "U+1D7F", "ᶀ", "ᶁ",
   "ᶂ", "ᶃ", "ᶄ", "ᶅ", "ᶆ", "ᶇ", "ᶈ", "ᶉ", "ᶊ", "ᶋ", "ᶌ", "ᶍ",
   "ᶎ", "ᶏ", "ᶐ", "ᶑ", "ᶒ", "ᶓ", "ᶔ", "ᶕ", "ᶖ", "ᶗ", "ᶘ", "ᶙ",
   "ᶚ", "U+1E00", "U+1E01", "U+1E02", "U+1E03", "U+1E04", "U+1E05", "U+1E06", "U+1E07", "U+1E08", "U+1E09", "U+1E0A",
   "U+1E0B", "U+1E0C", "U+1E0D", "U+1E0E", "U+1E0F", "U+1E10", "U+1E11", "U+1E12", "U+1E13", "U+1E14", "U+1E15", "U+1E16",
   "U+1E17", "U+1E18", "U+1E19", "U+1E1A", "U+1E1B", "U+1E1C", "U+1E1D", "U+1E1E", "U+1E1F", "U+1E20", "U+1E21", "U+1E22",
   "U+1E23", "U+1E24", "U+1E25", "U+1E26", "U+1E27", "U+1E28", "U+1E29", "U+1E2A", "U+1E2B", "U+1E2C", "U+1E2D", "U+1E2E",
   "U+1E2F", "U+1E30", "U+1E31", "U+1E32", "U+1E33", "U+1E34", "U+1E35", "U+1E36", "U+1E37", "U+1E38", "U+1E39", "U+1E3A",
   "U+1E3B", "U+1E3C", "U+1E3D", "U+1E3E", "U+1E3F", "U+1E40", "U+1E41", "U+1E42", "U+1E43", "U+1E44", "U+1E45", "U+1E46",
   "U+1E47", "U+1E48", "U+1E49", "U+1E4A", "U+1E4B", "U+1E4C", "U+1E4D", "U+1E4E", "U+1E4F", "U+1E50", "U+1E51", "U+1E52",
   "U+1E53", "U+1E54", "U+1E55", "U+1E56", "U+1E57", "U+1E58", "U+1E59", "U+1E5A", "U+1E5B", "U+1E5C", "U+1E5D", "U+1E5E",
   "U+1E5F", "U+1E60", "U+1E61", "U+1E62", "U+1E63", "U+1E64", "U+1E65", "U+1E66", "U+1E67", "U+1E68", "U+1E69", "U+1E6A",
   "U+1E6B", "U+1E6C", "U+1E6D", "U+1E6E", "U+1E6F", "U+1E70", "U+1E71", "U+1E72", "U+1E73", "U+1E74", "U+1E75", "U+1E76",
   "U+1E77", "U+1E78", "U+1E79", "U+1E7A", "U+1E7B", "U+1E7C", "U+1E7D", "U+1E7E", "U+1E7F", "Ẁ", "ẁ", "Ẃ",
   "ẃ", "Ẅ", "ẅ", "Ẇ", "ẇ", "Ẉ", "ẉ", "Ẋ", "ẋ", "Ẍ", "ẍ", "Ẏ",
   "ẏ", "Ẑ", "ẑ", "Ẓ", "ẓ", "Ẕ", "ẕ", "ẖ", "ẗ", "ẘ", "ẙ", "ẚ",
   "ẛ", "ẜ", "ẝ", "ẞ", "ẟ", "Ạ", "ạ", "Ả", "ả", "Ấ", "ấ", "Ầ",
   "ầ", "Ẩ", "ẩ", "Ẫ", "ẫ", "Ậ", "ậ", "Ắ", "ắ", "Ằ", "ằ", "Ẳ",
   "ẳ", "Ẵ", "ẵ", "Ặ", "ặ", "Ẹ", "ẹ", "Ẻ", "ẻ", "Ẽ", "ẽ", "Ế",
   "ế", "Ề", "ề", "Ể", "ể", "Ễ", "ễ", "Ệ", "ệ", "Ỉ", "ỉ", "Ị",
   "ị", "Ọ", "ọ", "Ỏ", "ỏ", "Ố", "ố", "Ồ", "ồ", "Ổ", "ổ", "Ỗ",
   "ỗ", "Ộ", "ộ", "Ớ", "ớ", "Ờ", "ờ", "Ở", "ở", "Ỡ", "ỡ", "Ợ",
   "ợ", "Ụ", "ụ", "Ủ", "ủ", "Ứ", "ứ", "Ừ", "ừ", "Ử", "ử", "Ữ",
   "ữ", "Ự", "ự", "Ỳ", "ỳ", "Ỵ", "ỵ", "Ỷ", "ỷ", "Ỹ", "ỹ", "Ỻ",
   "ỻ", "Ỽ", "ỽ", "Ỿ", "ỿ", "U+1F00", "U+1F01", "U+1F02", "U+1F03", "U+1F04", "U+1F05", "U+1F06",
   "U+1F07", "U+1F08", "U+1F09", "U+1F0A", "U+1F0B", "U+1F0C", "U+1F0D", "U+1F0E", "U+1F0F", "U+1F10", "U+1F11", "U+1F12",
   "U+1F13", "U+1F14", "U+1F15", "U+1F18", "U+1F19", "U+1F1A", "U+1F1B", "U+1F1C", "U+1F1D", "U+1F20", "U+1F21", "U+1F22",
   "U+1F23", "U+1F24", "U+1F25", "U+1F26", "U+1F27", "U+1F28", "U+1F29", "U+1F2A", "U+1F2B", "U+1F2C", "U+1F2D", "U+1F2E",
   "U+1F2F", "U+1F30", "U+1F31", "U+1F32", "U+1F33", "U+1F34", "U+1F35", "U+1F36", "U+1F37", "U+1F38", "U+1F39", "U+1F3A",
   "U+1F3B", "U+1F3C", "U+1F3D", "U+1F3E", "U+1F3F", "U+1F40", "U+1F41", "U+1F42", "U+1F43", "U+1F44", "U+1F45", "U+1F48",
   "U+1F49", "U+1F4A", "U+1F4B", "U+1F4C", "U+1F4D", "U+1F50", "U+1F51", "U+1F52", "U+1F53", "U+1F54", "U+1F55", "U+1F56",
   "U+1F57", "U+1F59", "U+1F5B", "U+1F5D", "U+1F5F", "U+1F60", "U+1F61", "U+1F62", "U+1F63", "U+1F64", "U+1F65", "U+1F66",
   "U+1F67", "U+1F68", "U+1F69", "U+1F6A", "U+1F6B", "U+1F6C", "U+1F6D", "U+1F6E", "U+1F6F", "U+1F70", "U+1F71", "U+1F72",
   "U+1F73", "U+1F74", "U+1F75", "U+1F76", "U+1F77", "U+1F78", "U+1F79", "U+1F7A", "U+1F7B", "U+1F7C", "U+1F7D", "ᾀ",
   "ᾁ", "ᾂ", "ᾃ", "ᾄ", "ᾅ", "ᾆ", "ᾇ", "ᾈ", "ᾉ", "ᾊ", "ᾋ", "ᾌ",
   "ᾍ", "ᾎ", "ᾏ", "ᾐ", "ᾑ", "ᾒ", "ᾓ", "ᾔ", "ᾕ", "ᾖ", "ᾗ", "ᾘ",
   "ᾙ", "ᾚ", "ᾛ", "ᾜ", "ᾝ", "ᾞ", "ᾟ", "ᾠ", "ᾡ", "ᾢ", "ᾣ", "ᾤ",
   "ᾥ", "ᾦ", "ᾧ", "ᾨ", "ᾩ", "ᾪ", "ᾫ", "ᾬ", "ᾭ", "ᾮ", "ᾯ", "ᾰ",
   "ᾱ", "ᾲ", "ᾳ", "ᾴ", "ᾶ", "ᾷ", "Ᾰ", "Ᾱ", "Ὰ", "Ά", "ᾼ", "ι",
   "ῂ", "ῃ", "ῄ", "ῆ", "ῇ", "Ὲ", "Έ", "Ὴ", "Ή", "ῌ", "ῐ", "ῑ",
   "ῒ", "ΐ", "ῖ", "ῗ", "Ῐ", "Ῑ", "Ὶ", "Ί", "ῠ", "ῡ", "ῢ", "ΰ",
   "ῤ", "ῥ", "ῦ", "ῧ", "Ῠ", "Ῡ", "Ὺ", "Ύ", "Ῥ", "ῲ", "ῳ", "ῴ",
   "ῶ", "ῷ", "Ὸ", "Ό", "Ὼ", "Ώ", "ῼ", "U+2102", "U+2107", "U+210A", "U+210B", "U+210C",
   "U+210D", "U+210E", "U+210F", "U+2110", "U+2111", "U+2112", "U+2113", "U+2115", "U+2119", "U+211A", "U+211B", "U+211C",
   "U+211D", "U+2124", "U+2126", "U+2128", "U+212A", "U+212B", "U+212C", "U+212D", "U+212F", "U+2130", "U+2131", "U+2132",
   "U+2133", "U+2134", "U+2139", "U+213C", "U+213D", "U+213E", "U+213F", "U+2145", "U+2146", "U+2147", "U+2148", "U+2149",
   "U+214E", "U+2160", "U+2161", "U+2162", "U+2163", "U+2164", "U+2165", "U+2166", "U+2167", "U+2168", "U+2169", "U+216A",
   "U+216B", "U+216C", "U+216D", "U+216E", "U+216F", "U+2170", "U+2171", "U+2172", "U+2173", "U+2174", "U+2175", "U+2176",
   "U+2177", "U+2178", "U+2179", "U+217A", "U+217B", "U+217C", "U+217D", "U+217E", "U+217F", "Ↄ", "ↄ", "Ⓐ",
   "Ⓑ", "Ⓒ", "Ⓓ", "Ⓔ", "Ⓕ", "Ⓖ", "Ⓗ", "Ⓘ", "Ⓙ", "Ⓚ", "Ⓛ", "Ⓜ",
   "Ⓝ", "Ⓞ", "Ⓟ", "Ⓠ", "Ⓡ", "Ⓢ", "Ⓣ", "Ⓤ", "Ⓥ", "Ⓦ", "Ⓧ", "Ⓨ",
   "Ⓩ", "ⓐ", "ⓑ", "ⓒ", "ⓓ", "ⓔ", "ⓕ", "ⓖ", "ⓗ", "ⓘ", "ⓙ", "ⓚ",
   "ⓛ", "ⓜ", "ⓝ", "ⓞ", "ⓟ", "ⓠ", "ⓡ", "ⓢ", "ⓣ", "ⓤ", "ⓥ", "ⓦ",
   "ⓧ", "ⓨ", "ⓩ", "U+2C00", "U+2C01", "U+2C02", "U+2C03", "U+2C04", "U+2C05", "U+2C06", "U+2C07", "U+2C08",
   "U+2C09", "U+2C0A", "U+2C0B", "U+2C0C", "U+2C0D", "U+2C0E", "U+2C0F", "U+2C10", "U+2C11", "U+2C12", "U+2C13", "U+2C14",
   "U+2C15", "U+2C16", "U+2C17", "U+2C18", "U+2C19", "U+2C1A", "U+2C1B", "U+2C1C", "U+2C1D", "U+2C1E", "U+2C1F", "U+2C20",
   "U+2C21", "U+2C22", "U+2C23", "U+2C24", "U+2C25", "U+2C26", "U+2C27", "U+2C28", "U+2C29", "U+2C2A", "U+2C2B", "U+2C2C",
   "U+2C2D", "U+2C2E", "U+2C2F", "U+2C30", "U+2C31", "U+2C32", "U+2C33", "U+2C34", "U+2C35", "U+2C36", "U+2C37", "U+2C38",
   "U+2C39", "U+2C3A", "U+2C3B", "U+2C3C", "U+2C3D", "U+2C3E", "U+2C3F", "U+2C40", "U+2C41", "U+2C42", "U+2C43", "U+2C44",
   "U+2C45", "U+2C46", "U+2C47", "U+2C48", "U+2C49", "U+2C4A", "U+2C4B", "U+2C4C", "U+2C4D", "U+2C4E", "U+2C4F", "U+2C50",
   "U+2C51", "U+2C52", "U+2C53", "U+2C54", "U+2C55", "U+2C56", "U+2C57", "U+2C58", "U+2C59", "U+2C5A", "U+2C5B", "U+2C5C",
   "U+2C5D", "U+2C5E", "U+2C5F", "U+2C60", "U+2C61", "U+2C62", "U+2C63", "U+2C64", "U+2C65", "U+2C66", "U+2C67", "U+2C68",
   "U+2C69", "U+2C6A", "U+2C6B", "U+2C6C", "U+2C6D", "U+2C6E", "U+2C6F", "U+2C70", "U+2C71", "U+2C72", "U+2C73", "U+2C74",
   "U+2C75", "U+2C76", "U+2C77", "U+2C78", "U+2C79", "U+2C7A", "U+2C7B", "U+2C7E", "U+2C7F", "Ⲁ", "ⲁ", "Ⲃ",
   "ⲃ", "Ⲅ", "ⲅ", "Ⲇ", "ⲇ", "Ⲉ", "ⲉ", "Ⲋ", "ⲋ", "Ⲍ", "ⲍ", "Ⲏ",
   "ⲏ", "Ⲑ", "ⲑ", "Ⲓ", "ⲓ", "Ⲕ", "ⲕ", "Ⲗ", "ⲗ", "Ⲙ", "ⲙ", "Ⲛ",
   "ⲛ", "Ⲝ", "ⲝ", "Ⲟ", "ⲟ", "Ⲡ", "ⲡ", "Ⲣ", "ⲣ", "Ⲥ", "ⲥ", "Ⲧ",
   "ⲧ", "Ⲩ", "ⲩ", "Ⲫ", "ⲫ", "Ⲭ", "ⲭ", "Ⲯ", "ⲯ", "Ⲱ", "ⲱ", "Ⲳ",
   "ⲳ", "Ⲵ", "ⲵ", "Ⲷ", "ⲷ", "Ⲹ", "ⲹ", "Ⲻ", "ⲻ", "Ⲽ", "ⲽ", "Ⲿ",
   "ⲿ", "Ⳁ", "ⳁ", "Ⳃ", "ⳃ", "Ⳅ", "ⳅ", "Ⳇ", "ⳇ", "Ⳉ", "ⳉ", "Ⳋ",
   "ⳋ", "Ⳍ", "ⳍ", "Ⳏ", "ⳏ", "Ⳑ", "ⳑ", "Ⳓ", "ⳓ", "Ⳕ", "ⳕ", "Ⳗ",
   "ⳗ", "Ⳙ", "ⳙ", "Ⳛ", "ⳛ", "Ⳝ", "ⳝ", "Ⳟ", "ⳟ", "Ⳡ", "ⳡ", "Ⳣ",
   "ⳣ", "ⳤ", "Ⳬ", "ⳬ", "Ⳮ", "ⳮ", "Ⳳ", "ⳳ", "U+2D00", "U+2D01", "U+2D02", "U+2D03",
   "U+2D04", "U+2D05", "U+2D06", "U+2D07", "U+2D08", "U+2D09", "U+2D0A", "U+2D0B", "U+2D0C", "U+2D0D", "U+2D0E", "U+2D0F",
   "U+2D10", "U+2D11", "U+2D12", "U+2D13", "U+2D14", "U+2D15", "U+2D16", "U+2D17", "U+2D18", "U+2D19", "U+2D1A", "U+2D1B",
   "U+2D1C", "U+2D1D", "U+2D1E", "U+2D1F", "U+2D20", "U+2D21", "U+2D22", "U+2D23", "U+2D24", "U+2D25", "U+2D27", "U+2D2D",
   "U+A640", "U+A641", "U+A642", "U+A643", "U+A644", "U+A645", "U+A646", "U+A647", "U+A648", "U+A649", "U+A64A", "U+A64B",
   "U+A64C", "U+A64D", "U+A64E", "U+A64F", "U+A650", "U+A651", "U+A652", "U+A653", "U+A654", "U+A655", "U+A656", "U+A657",
   "U+A658", "U+A659", "U+A65A", "U+A65B", "U+A65C", "U+A65D", "U+A65E", "U+A65F", "U+A660", "U+A661", "U+A662", "U+A663",
   "U+A664", "U+A665", "U+A666", "U+A667", "U+A668", "U+A669", "U+A66A", "U+A66B", "U+A66C", "U+A66D", "Ꚁ", "ꚁ",
   "Ꚃ", "ꚃ", "Ꚅ", "ꚅ", "Ꚇ", "ꚇ", "Ꚉ", "ꚉ", "Ꚋ", "ꚋ", "Ꚍ", "ꚍ",
   "Ꚏ", "ꚏ", "Ꚑ", "ꚑ", "Ꚓ", "ꚓ", "Ꚕ", "ꚕ", "Ꚗ", "ꚗ", "Ꚙ", "ꚙ",
   "Ꚛ", "ꚛ", "U+A722", "U+A723", "U+A724", "U+A725", "U+A726", "U+A727", "U+A728", "U+A729", "U+A72A", "U+A72B",
   "U+A72C", "U+A72D", "U+A72E", "U+A72F", "U+A730", "U+A731", "U+A732", "U+A733", "U+A734", "U+A735", "U+A736", "U+A737",
   "U+A738", "U+A739", "U+A73A", "U+A73B", "U+A73C", "U+A73D", "U+A73E", "U+A73F", "U+A740", "U+A741", "U+A742", "U+A743",
   "U+A744", "U+A745", "U+A746", "U+A747", "U+A748", "U+A749", "U+A74A", "U+A74B", "U+A74C", "U+A74D", "U+A74E", "U+A74F",
   "U+A750", "U+A751", "U+A752", "U+A753", "U+A754", "U+A755", "U+A756", "U+A757", "U+A758", "U+A759", "U+A75A", "U+A75B",
   "U+A75C", "U+A75D", "U+A75E", "U+A75F", "U+A760", "U+A761", "U+A762", "U+A763", "U+A764", "U+A765", "U+A766", "U+A767",
   "U+A768", "U+A769", "U+A76A", "U+A76B", "U+A76C", "U+A76D", "U+A76E", "U+A76F", "U+A771", "U+A772", "U+A773", "U+A774",
   "U+A775", "U+A776", "U+A777", "U+A778", "U+A779", "U+A77A", "U+A77B", "U+A77C", "U+A77D", "U+A77E", "U+A77F", "Ꞁ",
   "ꞁ", "Ꞃ", "ꞃ", "Ꞅ", "ꞅ", "Ꞇ", "ꞇ", "Ꞌ", "ꞌ", "Ɥ", "ꞎ", "Ꞑ",
   "ꞑ", "Ꞓ", "ꞓ", "ꞔ", "ꞕ", "Ꞗ", "ꞗ", "Ꞙ", "ꞙ", "Ꞛ", "ꞛ", "Ꞝ",
   "ꞝ", "Ꞟ", "ꞟ", "Ꞡ", "ꞡ", "Ꞣ", "ꞣ", "Ꞥ", "ꞥ", "Ꞧ", "ꞧ", "Ꞩ",
   "ꞩ", "Ɦ", "Ɜ", "Ɡ", "Ɬ", "Ɪ", "ꞯ", "Ʞ", "Ʇ", "Ʝ", "Ꭓ", "Ꞵ",
   "ꞵ", "Ꞷ", "ꞷ", "Ꞹ", "ꞹ", "Ꞻ", "ꞻ", "Ꞽ", "ꞽ", "Ꞿ", "ꞿ", "Ꟁ",
   "ꟁ", "Ꟃ", "ꟃ", "Ꞔ", "Ʂ", "Ᶎ", "Ꟈ", "ꟈ", "Ꟊ", "ꟊ", "Ꟑ", "ꟑ",
   "ꟓ", "ꟕ", "Ꟗ", "ꟗ", "Ꟙ", "ꟙ", "Ꟶ", "ꟶ", "ꟺ", "U+AB30", "U+AB31", "U+AB32",
   "U+AB33", "U+AB34", "U+AB35", "U+AB36", "U+AB37", "U+AB38", "U+AB39", "U+AB3A", "U+AB3B", "U+AB3C", "U+AB3D", "U+AB3E",
   "U+AB3F", "U+AB40", "U+AB41", "U+AB42", "U+AB43", "U+AB44", "U+AB45", "U+AB46", "U+AB47", "U+AB48", "U+AB49", "U+AB4A",
   "U+AB4B", "U+AB4C", "U+AB4D", "U+AB4E", "U+AB4F", "U+AB50", "U+AB51", "U+AB52", "U+AB53", "U+AB54", "U+AB55", "U+AB56",
   "U+AB57", "U+AB58", "U+AB59", "U+AB5A", "U+AB60", "U+AB61", "U+AB62", "U+AB63", "U+AB64", "U+AB65", "U+AB66", "U+AB67",
   "U+AB68", "U+AB70", "U+AB71", "U+AB72", "U+AB73", "U+AB74", "U+AB75", "U+AB76", "U+AB77", "U+AB78", "U+AB79", "U+AB7A",
   "U+AB7B", "U+AB7C", "U+AB7D", "U+AB7E", "U+AB7F", "ꮀ", "ꮁ", "ꮂ", "ꮃ", "ꮄ", "ꮅ", "ꮆ",
   "ꮇ", "ꮈ", "ꮉ", "ꮊ", "ꮋ", "ꮌ", "ꮍ", "ꮎ", "ꮏ", "ꮐ", "ꮑ", "ꮒ",
   "ꮓ", "ꮔ", "ꮕ", "ꮖ", "ꮗ", "ꮘ", "ꮙ", "ꮚ", "ꮛ", "ꮜ", "ꮝ", "ꮞ",
   "ꮟ", "ꮠ", "ꮡ", "ꮢ", "ꮣ", "ꮤ", "ꮥ", "ꮦ", "ꮧ", "ꮨ", "ꮩ", "ꮪ",
   "ꮫ", "ꮬ", "ꮭ", "ꮮ", "ꮯ", "ꮰ", "ꮱ", "ꮲ", "ꮳ", "ꮴ", "ꮵ", "ꮶ",
   "ꮷ", "ꮸ", "ꮹ", "ꮺ", "ꮻ", "ꮼ", "ꮽ", "ꮾ", "ꮿ", "U+FB00", "U+FB01", "U+FB02",
   "U+FB03", "U+FB04", "U+FB05", "U+FB06", "U+FB13", "U+FB14", "U+FB15", "U+FB16", "U+FB17", "U+FF21", "U+FF22", "U+FF23",
   "U+FF24", "U+FF25", "U+FF26", "U+FF27", "U+FF28", "U+FF29", "U+FF2A", "U+FF2B", "U+FF2C", "U+FF2D", "U+FF2E", "U+FF2F",
   "U+FF30", "U+FF31", "U+FF32", "U+FF33", "U+FF34", "U+FF35", "U+FF36", "U+FF37", "U+FF38", "U+FF39", "U+FF3A", "U+FF41",
   "U+FF42", "U+FF43", "U+FF44", "U+FF45", "U+FF46", "U+FF47", "U+FF48", "U+FF49", "U+FF4A", "U+FF4B", "U+FF4C", "U+FF4D",
   "U+FF4E", "U+FF4F", "U+FF50", "U+FF51", "U+FF52", "U+FF53", "U+FF54", "U+FF55", "U+FF56", "U+FF57", "U+FF58", "U+FF59",
   "U+FF5A", "U+10400", "U+10401", "U+10402", "U+10403", "U+10404", "U+10405", "U+10406", "U+10407", "U+10408", "U+10409", "U+1040A",
   "U+1040B", "U+1040C", "U+1040D", "U+1040E", "U+1040F", "U+10410", "U+10411", "U+10412", "U+10413", "U+10414", "U+10415", "U+10416",
   "U+10417", "U+10418", "U+10419", "U+1041A", "U+1041B", "U+1041C", "U+1041D", "U+1041E", "U+1041F", "U+10420", "U+10421", "U+10422",
   "U+10423", "U+10424", "U+10425", "U+10426", "U+10427", "U+10428", "U+10429", "U+1042A", "U+1042B", "U+1042C", "U+1042D", "U+1042E",
   "U+1042F", "U+10430", "U+10431", "U+10432", "U+10433", "U+10434", "U+10435", "U+10436", "U+10437", "U+10438", "U+10439", "U+1043A",
   "U+1043B", "U+1043C", "U+1043D", "U+1043E", "U+1043F", "U+10440", "U+10441", "U+10442", "U+10443", "U+10444", "U+10445", "U+10446",
   "U+10447", "U+10448", "U+10449", "U+1044A", "U+1044B", "U+1044C", "U+1044D", "U+1044E", "U+1044F", "U+104B0", "U+104B1", "U+104B2",
   "U+104B3", "U+104B4", "U+104B5", "U+104B6", "U+104B7", "U+104B8", "U+104B9", "U+104BA", "U+104BB", "U+104BC", "U+104BD", "U+104BE",
   "U+104BF", "U+104C0", "U+104C1", "U+104C2", "U+104C3", "U+104C4", "U+104C5", "U+104C6", "U+104C7", "U+104C8", "U+104C9", "U+104CA",
   "U+104CB", "U+104CC", "U+104CD", "U+104CE", "U+104CF", "U+104D0", "U+104D1", "U+104D2", "U+104D3", "U+104D8", "U+104D9", "U+104DA",
   "U+104DB", "U+104DC", "U+104DD", "U+104DE", "U+104DF", "U+104E0", "U+104E1", "U+104E2", "U+104E3", "U+104E4", "U+104E5", "U+104E6",
   "U+104E7", "U+104E8", "U+104E9", "U+104EA", "U+104EB", "U+104EC", "U+104ED", "U+104EE", "U+104EF", "U+104F0", "U+104F1", "U+104F2",
   "U+104F3", "U+104F4", "U+104F5", "U+104F6", "U+104F7", "U+104F8", "U+104F9", "U+104FA", "U+104FB", "U+10570", "U+10571", "U+10572",
   "U+10573", "U+10574", "U+10575", "U+10576", "U+10577", "U+10578", "U+10579", "U+1057A", "U+1057C", "U+1057D", "U+1057E", "U+1057F",
   "U+10580", "U+10581", "U+10582", "U+10583", "U+10584", "U+10585", "U+10586", "U+10587", "U+10588", "U+10589", "U+1058A", "U+1058C",
   "U+1058D", "U+1058E", "U+1058F", "U+10590", "U+10591", "U+10592", "U+10594", "U+10595", "U+10597", "U+10598", "U+10599", "U+1059A",
   "U+1059B", "U+1059C", "U+1059D", "U+1059E", "U+1059F", "U+105A0", "U+105A1", "U+105A3", "U+105A4", "U+105A5", "U+105A6", "U+105A7",
   "U+105A8", "U+105A9", "U+105AA", "U+105AB", "U+105AC", "U+105AD", "U+105AE", "U+105AF", "U+105B0", "U+105B1", "U+105B3", "U+105B4",
   "U+105B5", "U+105B6", "U+105B7", "U+105B8", "U+105B9", "U+105BB", "U+105BC", "U+10C80", "U+10C81", "U+10C82", "U+10C83", "U+10C84",
   "U+10C85", "U+10C86", "U+10C87", "U+10C88", "U+10C89", "U+10C8A", "U+10C8B", "U+10C8C", "U+10C8D", "U+10C8E", "U+10C8F", "U+10C90",
   "U+10C91", "U+10C92", "U+10C93", "U+10C94", "U+10C95", "U+10C96", "U+10C97", "U+10C98", "U+10C99", "U+10C9A", "U+10C9B", "U+10C9C",
   "U+10C9D", "U+10C9E", "U+10C9F", "U+10CA0", "U+10CA1", "U+10CA2", "U+10CA3", "U+10CA4", "U+10CA5", "U+10CA6", "U+10CA7", "U+10CA8",
   "U+10CA9", "U+10CAA", "U+10CAB", "U+10CAC", "U+10CAD", "U+10CAE", "U+10CAF", "U+10CB0", "U+10CB1", "U+10CB2", "U+10CC0", "U+10CC1",
   "U+10CC2", "U+10CC3", "U+10CC4", "U+10CC5", "U+10CC6", "U+10CC7", "U+10CC8", "U+10CC9", "U+10CCA", "U+10CCB", "U+10CCC", "U+10CCD",
   "U+10CCE", "U+10CCF", "U+10CD0", "U+10CD1", "U+10CD2", "U+10CD3", "U+10CD4", "U+10CD5", "U+10CD6", "U+10CD7", "U+10CD8", "U+10CD9",
   "U+10CDA", "U+10CDB", "U+10CDC", "U+10CDD", "U+10CDE", "U+10CDF", "U+10CE0", "U+10CE1", "U+10CE2", "U+10CE3", "U+10CE4", "U+10CE5",
   "U+10CE6", "U+10CE7", "U+10CE8", "U+10CE9", "U+10CEA", "U+10CEB", "U+10CEC", "U+10CED", "U+10CEE", "U+10CEF", "U+10CF0", "U+10CF1",
   "U+10CF2", "U+118A0", "U+118A1", "U+118A2", "U+118A3", "U+118A4", "U+118A5", "U+118A6", "U+118A7", "U+118A8", "U+118A9", "U+118AA",
   "U+118AB", "U+118AC", "U+118AD", "U+118AE", "U+118AF", "U+118B0", "U+118B1", "U+118B2", "U+118B3", "U+118B4", "U+118B5", "U+118B6",
   "U+118B7", "U+118B8", "U+118B9", "U+118BA", "U+118BB", "U+118BC", "U+118BD", "U+118BE", "U+118BF", "U+118C0", "U+118C1", "U+118C2",
   "U+118C3", "U+118C4", "U+118C5", "U+118C6", "U+118C7", "U+118C8", "U+118C9", "U+118CA", "U+118CB", "U+118CC", "U+118CD", "U+118CE",
   "U+118CF", "U+118D0", "U+118D1", "U+118D2", "U+118D3", "U+118D4", "U+118D5", "U+118D6", "U+118D7", "U+118D8", "U+118D9", "U+118DA",
   "U+118DB", "U+118DC", "U+118DD", "U+118DE", "U+118DF", "U+16E40", "U+16E41", "U+16E42", "U+16E43", "U+16E44", "U+16E45", "U+16E46",
   "U+16E47", "U+16E48", "U+16E49", "U+16E4A", "U+16E4B", "U+16E4C", "U+16E4D", "U+16E4E", "U+16E4F", "U+16E50", "U+16E51", "U+16E52",
   "U+16E53", "U+16E54", "U+16E55", "U+16E56", "U+16E57", "U+16E58", "U+16E59", "U+16E5A", "U+16E5B", "U+16E5C", "U+16E5D", "U+16E5E",
   "U+16E5F", "U+16E60", "U+16E61", "U+16E62", "U+16E63", "U+16E64", "U+16E65", "U+16E66", "U+16E67", "U+16E68", "U+16E69", "U+16E6A",
   "U+16E6B", "U+16E6C", "U+16E6D", "U+16E6E", "U+16E6F", "U+16E70", "U+16E71", "U+16E72", "U+16E73", "U+16E74", "U+16E75", "U+16E76",
   "U+16E77", "U+16E78", "U+16E79", "U+16E7A", "U+16E7B", "U+16E7C", "U+16E7D", "U+16E7E", "U+16E7F", "U+1D400", "U+1D401", "U+1D402",
   "U+1D403", "U+1D404", "U+1D405", "U+1D406", "U+1D407", "U+1D408", "U+1D409", "U+1D40A", "U+1D40B", "U+1D40C", "U+1D40D", "U+1D40E",
   "U+1D40F", "U+1D410", "U+1D411", "U+1D412", "U+1D413", "U+1D414", "U+1D415", "U+1D416", "U+1D417", "U+1D418", "U+1D419", "U+1D41A",
   "U+1D41B", "U+1D41C", "U+1D41D", "U+1D41E", "U+1D41F", "U+1D420", "U+1D421", "U+1D422", "U+1D423", "U+1D424", "U+1D425", "U+1D426",
   "U+1D427", "U+1D428", "U+1D429", "U+1D42A", "U+1D42B", "U+1D42C", "U+1D42D", "U+1D42E", "U+1D42F", "U+1D430", "U+1D431", "U+1D432",
   "U+1D433", "U+1D434", "U+1D435", "U+1D436", "U+1D437", "U+1D438", "U+1D439", "U+1D43A", "U+1D43B", "U+1D43C", "U+1D43D", "U+1D43E",
   "U+1D43F", "U+1D440", "U+1D441", "U+1D442", "U+1D443", "U+1D444", "U+1D445", "U+1D446", "U+1D447", "U+1D448", "U+1D449", "U+1D44A",
   "U+1D44B", "U+1D44C", "U+1D44D", "U+1D44E", "U+1D44F", "U+1D450", "U+1D451", "U+1D452", "U+1D453", "U+1D454", "U+1D456", "U+1D457",
   "U+1D458", "U+1D459", "U+1D45A", "U+1D45B", "U+1D45C", "U+1D45D", "U+1D45E", "U+1D45F", "U+1D460", "U+1D461", "U+1D462", "U+1D463",
   "U+1D464", "U+1D465", "U+1D466", "U+1D467", "U+1D468", "U+1D469", "U+1D46A", "U+1D46B", "U+1D46C", "U+1D46D", "U+1D46E", "U+1D46F",
   "U+1D470", "U+1D471", "U+1D472", "U+1D473", "U+1D474", "U+1D475", "U+1D476", "U+1D477", "U+1D478", "U+1D479", "U+1D47A", "U+1D47B",
   "U+1D47C", "U+1D47D", "U+1D47E", "U+1D47F", "U+1D480", "U+1D481", "U+1D482", "U+1D483", "U+1D484", "U+1D485", "U+1D486", "U+1D487",
   "U+1D488", "U+1D489", "U+1D48A", "U+1D48B", "U+1D48C", "U+1D48D", "U+1D48E", "U+1D48F", "U+1D490", "U+1D491", "U+1D492", "U+1D493",
   "U+1D494", "U+1D495", "U+1D496", "U+1D497", "U+1D498", "U+1D499", "U+1D49A", "U+1D49B", "U+1D49C", "U+1D49E", "U+1D49F", "U+1D4A2",
   "U+1D4A5", "U+1D4A6", "U+1D4A9", "U+1D4AA", "U+1D4AB", "U+1D4AC", "U+1D4AE", "U+1D4AF", "U+1D4B0", "U+1D4B1", "U+1D4B2", "U+1D4B3",
   "U+1D4B4", "U+1D4B5", "U+1D4B6", "U+1D4B7", "U+1D4B8", "U+1D4B9", "U+1D4BB", "U+1D4BD", "U+1D4BE", "U+1D4BF", "U+1D4C0", "U+1D4C1",
   "U+1D4C2", "U+1D4C3", "U+1D4C5", "U+1D4C6", "U+1D4C7", "U+1D4C8", "U+1D4C9", "U+1D4CA", "U+1D4CB", "U+1D4CC", "U+1D4CD", "U+1D4CE",
   "U+1D4CF", "U+1D4D0", "U+1D4D1", "U+1D4D2", "U+1D4D3", "U+1D4D4", "U+1D4D5", "U+1D4D6", "U+1D4D7", "U+1D4D8", "U+1D4D9", "U+1D4DA",
   "U+1D4DB", "U+1D4DC", "U+1D4DD", "U+1D4DE", "U+1D4DF", "U+1D4E0", "U+1D4E1", "U+1D4E2", "U+1D4E3", "U+1D4E4", "U+1D4E5", "U+1D4E6",
   "U+1D4E7", "U+1D4E8", "U+1D4E9", "U+1D4EA", "U+1D4EB", "U+1D4EC", "U+1D4ED", "U+1D4EE", "U+1D4EF", "U+1D4F0", "U+1D4F1", "U+1D4F2",
   "U+1D4F3", "U+1D4F4", "U+1D4F5", "U+1D4F6", "U+1D4F7", "U+1D4F8", "U+1D4F9", "U+1D4FA", "U+1D4FB", "U+1D4FC", "U+1D4FD", "U+1D4FE",
   "U+1D4FF", "U+1D500", "U+1D501", "U+1D502", "U+1D503", "U+1D504", "U+1D505", "U+1D507", "U+1D508", "U+1D509", "U+1D50A", "U+1D50D",
   "U+1D50E", "U+1D50F", "U+1D510", "U+1D511", "U+1D512", "U+1D513", "U+1D514", "U+1D516", "U+1D517", "U+1D518", "U+1D519", "U+1D51A",
   "U+1D51B", "U+1D51C", "U+1D51E", "U+1D51F", "U+1D520", "U+1D521", "U+1D522", "U+1D523", "U+1D524", "U+1D525", "U+1D526", "U+1D527",
   "U+1D528", "U+1D529", "U+1D52A", "U+1D52B", "U+1D52C", "U+1D52D", "U+1D52E", "U+1D52F", "U+1D530", "U+1D531", "U+1D532", "U+1D533",
   "U+1D534", "U+1D535", "U+1D536", "U+1D537", "U+1D538", "U+1D539", "U+1D53B", "U+1D53C", "U+1D53D", "U+1D53E", "U+1D540", "U+1D541",
   "U+1D542", "U+1D543", "U+1D544", "U+1D546", "U+1D54A", "U+1D54B", "U+1D54C", "U+1D54D", "U+1D54E", "U+1D54F", "U+1D550", "U+1D552",
   "U+1D553", "U+1D554", "U+1D555", "U+1D556", "U+1D557", "U+1D558", "U+1D559", "U+1D55A", "U+1D55B", "U+1D55C", "U+1D55D", "U+1D55E",
   "U+1D55F", "U+1D560", "U+1D561", "U+1D562", "U+1D563", "U+1D564", "U+1D565", "U+1D566", "U+1D567", "U+1D568", "U+1D569", "U+1D56A",
   "U+1D56B", "U+1D56C", "U+1D56D", "U+1D56E", "U+1D56F", "U+1D570", "U+1D571", "U+1D572", "U+1D573", "U+1D574", "U+1D575", "U+1D576",
   "U+1D577", "U+1D578", "U+1D579", "U+1D57A", "U+1D57B", "U+1D57C", "U+1D57D", "U+1D57E", "U+1D57F", "U+1D580", "U+1D581", "U+1D582",
   "U+1D583", "U+1D584", "U+1D585", "U+1D586", "U+1D587", "U+1D588", "U+1D589", "U+1D58A", "U+1D58B", "U+1D58C", "U+1D58D", "U+1D58E",
   "U+1D58F", "U+1D590", "U+1D591", "U+1D592", "U+1D593", "U+1D594", "U+1D595", "U+1D596", "U+1D597", "U+1D598", "U+1D599", "U+1D59A",
   "U+1D59B", "U+1D59C", "U+1D59D", "U+1D59E", "U+1D59F", "U+1D5A0", "U+1D5A1", "U+1D5A2", "U+1D5A3", "U+1D5A4", "U+1D5A5", "U+1D5A6",
   "U+1D5A7", "U+1D5A8", "U+1D5A9", "U+1D5AA", "U+1D5AB", "U+1D5AC", "U+1D5AD", "U+1D5AE", "U+1D5AF", "U+1D5B0", "U+1D5B1", "U+1D5B2",
   "U+1D5B3", "U+1D5B4", "U+1D5B5", "U+1D5B6", "U+1D5B7", "U+1D5B8", "U+1D5B9", "U+1D5BA", "U+1D5BB", "U+1D5BC", "U+1D5BD", "U+1D5BE",
   "U+1D5BF", "U+1D5C0", "U+1D5C1", "U+1D5C2", "U+1D5C3", "U+1D5C4", "U+1D5C5", "U+1D5C6", "U+1D5C7", "U+1D5C8", "U+1D5C9", "U+1D5CA",
   "U+1D5CB", "U+1D5CC", "U+1D5CD", "U+1D5CE", "U+1D5CF", "U+1D5D0", "U+1D5D1", "U+1D5D2", "U+1D5D3", "U+1D5D4", "U+1D5D5", "U+1D5D6",
   "U+1D5D7", "U+1D5D8", "U+1D5D9", "U+1D5DA", "U+1D5DB", "U+1D5DC", "U+1D5DD", "U+1D5DE", "U+1D5DF", "U+1D5E0", "U+1D5E1", "U+1D5E2",
   "U+1D5E3", "U+1D5E4", "U+1D5E5", "U+1D5E6", "U+1D5E7", "U+1D5E8", "U+1D5E9", "U+1D5EA", "U+1D5EB", "U+1D5EC", "U+1D5ED", "U+1D5EE",
   "U+1D5EF", "U+1D5F0", "U+1D5F1", "U+1D5F2", "U+1D5F3", "U+1D5F4", "U+1D5F5", "U+1D5F6", "U+1D5F7", "U+1D5F8", "U+1D5F9", "U+1D5FA",
   "U+1D5FB", "U+1D5FC", "U+1D5FD", "U+1D5FE", "U+1D5FF", "U+1D600", "U+1D601", "U+1D602", "U+1D603", "U+1D604", "U+1D605", "U+1D606",
   "U+1D607", "U+1D608", "U+1D609", "U+1D60A", "U+1D60B", "U+1D60C", "U+1D60D", "U+1D60E", "U+1D60F", "U+1D610", "U+1D611", "U+1D612",
   "U+1D613", "U+1D614", "U+1D615", "U+1D616", "U+1D617", "U+1D618", "U+1D619", "U+1D61A", "U+1D61B", "U+1D61C", "U+1D61D", "U+1D61E",
   "U+1D61F", "U+1D620", "U+1D621", "U+1D622", "U+1D623", "U+1D624", "U+1D625", "U+1D626", "U+1D627", "U+1D628", "U+1D629", "U+1D62A",
   "U+1D62B", "U+1D62C", "U+1D62D", "U+1D62E", "U+1D62F", "U+1D630", "U+1D631", "U+1D632", "U+1D633", "U+1D634", "U+1D635", "U+1D636",
   "U+1D637", "U+1D638", "U+1D639", "U+1D63A", "U+1D63B", "U+1D63C", "U+1D63D", "U+1D63E", "U+1D63F", "U+1D640", "U+1D641", "U+1D642",
   "U+1D643", "U+1D644", "U+1D645", "U+1D646", "U+1D647", "U+1D648", "U+1D649", "U+1D64A", "U+1D64B", "U+1D64C", "U+1D64D", "U+1D64E",
   "U+1D64F", "U+1D650", "U+1D651", "U+1D652", "U+1D653", "U+1D654", "U+1D655", "U+1D656", "U+1D657", "U+1D658", "U+1D659", "U+1D65A",
   "U+1D65B", "U+1D65C", "U+1D65D", "U+1D65E", "U+1D65F", "U+1D660", "U+1D661", "U+1D662", "U+1D663", "U+1D664", "U+1D665", "U+1D666",
   "U+1D667", "U+1D668", "U+1D669", "U+1D66A", "U+1D66B", "U+1D66C", "U+1D66D", "U+1D66E", "U+1D66F", "U+1D670", "U+1D671", "U+1D672",
   "U+1D673", "U+1D674", "U+1D675", "U+1D676", "U+1D677", "U+1D678", "U+1D679", "U+1D67A", "U+1D67B", "U+1D67C", "U+1D67D", "U+1D67E",
   "U+1D67F", "U+1D680", "U+1D681", "U+1D682", "U+1D683", "U+1D684", "U+1D685", "U+1D686", "U+1D687", "U+1D688", "U+1D689", "U+1D68A",
   "U+1D68B", "U+1D68C", "U+1D68D", "U+1D68E", "U+1D68F", "U+1D690", "U+1D691", "U+1D692", "U+1D693", "U+1D694", "U+1D695", "U+1D696",
   "U+1D697", "U+1D698", "U+1D699", "U+1D69A", "U+1D69B", "U+1D69C", "U+1D69D", "U+1D69E", "U+1D69F", "U+1D6A0", "U+1D6A1", "U+1D6A2",
   "U+1D6A3", "U+1D6A4", "U+1D6A5", "U+1D6A8", "U+1D6A9", "U+1D6AA", "U+1D6AB", "U+1D6AC", "U+1D6AD", "U+1D6AE", "U+1D6AF", "U+1D6B0",
   "U+1D6B1", "U+1D6B2", "U+1D6B3", "U+1D6B4", "U+1D6B5", "U+1D6B6", "U+1D6B7", "U+1D6B8", "U+1D6B9", "U+1D6BA", "U+1D6BB", "U+1D6BC",
   "U+1D6BD", "U+1D6BE", "U+1D6BF", "U+1D6C0", "U+1D6C2", "U+1D6C3", "U+1D6C4", "U+1D6C5", "U+1D6C6", "U+1D6C7", "U+1D6C8", "U+1D6C9",
   "U+1D6CA", "U+1D6CB", "U+1D6CC", "U+1D6CD", "U+1D6CE", "U+1D6CF", "U+1D6D0", "U+1D6D1", "U+1D6D2", "U+1D6D3", "U+1D6D4", "U+1D6D5",
   "U+1D6D6", "U+1D6D7", "U+1D6D8", "U+1D6D9", "U+1D6DA", "U+1D6DC", "U+1D6DD", "U+1D6DE", "U+1D6DF", "U+1D6E0", "U+1D6E1", "U+1D6E2",
   "U+1D6E3", "U+1D6E4", "U+1D6E5", "U+1D6E6", "U+1D6E7", "U+1D6E8", "U+1D6E9", "U+1D6EA", "U+1D6EB", "U+1D6EC", "U+1D6ED", "U+1D6EE",
   "U+1D6EF", "U+1D6F0", "U+1D6F1", "U+1D6F2", "U+1D6F3", "U+1D6F4", "U+1D6F5", "U+1D6F6", "U+1D6F7", "U+1D6F8", "U+1D6F9", "U+1D6FA",
   "U+1D6FC", "U+1D6FD", "U+1D6FE", "U+1D6FF", "U+1D700", "U+1D701", "U+1D702", "U+1D703", "U+1D704", "U+1D705", "U+1D706", "U+1D707",
   "U+1D708", "U+1D709", "U+1D70A", "U+1D70B", "U+1D70C", "U+1D70D", "U+1D70E", "U+1D70F", "U+1D710", "U+1D711", "U+1D712", "U+1D713",
   "U+1D714", "U+1D716", "U+1D717", "U+1D718", "U+1D719", "U+1D71A", "U+1D71B", "U+1D71C", "U+1D71D", "U+1D71E", "U+1D71F", "U+1D720",
   "U+1D721", "U+1D722", "U+1D723", "U+1D724", "U+1D725", "U+1D726", "U+1D727", "U+1D728", "U+1D729", "U+1D72A", "U+1D72B", "U+1D72C",
   "U+1D72D", "U+1D72E", "U+1D72F", "U+1D730", "U+1D731", "U+1D732", "U+1D733", "U+1D734", "U+1D736", "U+1D737", "U+1D738", "U+1D739",
   "U+1D73A", "U+1D73B", "U+1D73C", "U+1D73D", "U+1D73E", "U+1D73F", "U+1D740", "U+1D741", "U+1D742", "U+1D743", "U+1D744", "U+1D745",
   "U+1D746", "U+1D747", "U+1D748", "U+1D749", "U+1D74A", "U+1D74B", "U+1D74C", "U+1D74D", "U+1D74E", "U+1D750", "U+1D751", "U+1D752",
   "U+1D753", "U+1D754", "U+1D755", "U+1D756", "U+1D757", "U+1D758", "U+1D759", "U+1D75A", "U+1D75B", "U+1D75C", "U+1D75D", "U+1D75E",
   "U+1D75F", "U+1D760", "U+1D761", "U+1D762", "U+1D763", "U+1D764", "U+1D765", "U+1D766", "U+1D767", "U+1D768", "U+1D769", "U+1D76A",
   "U+1D76B", "U+1D76C", "U+1D76D", "U+1D76E", "U+1D770", "U+1D771", "U+1D772", "U+1D773", "U+1D774", "U+1D775", "U+1D776", "U+1D777",
   "U+1D778", "U+1D779", "U+1D77A", "U+1D77B", "U+1D77C", "U+1D77D", "U+1D77E", "U+1D77F", "U+1D780", "U+1D781", "U+1D782", "U+1D783",
   "U+1D784", "U+1D785", "U+1D786", "U+1D787", "U+1D788", "U+1D78A", "U+1D78B", "U+1D78C", "U+1D78D", "U+1D78E", "U+1D78F", "U+1D790",
   "U+1D791", "U+1D792", "U+1D793", "U+1D794", "U+1D795", "U+1D796", "U+1D797", "U+1D798", "U+1D799", "U+1D79A", "U+1D79B", "U+1D79C",
   "U+1D79D", "U+1D79E", "U+1D79F", "U+1D7A0", "U+1D7A1", "U+1D7A2", "U+1D7A3", "U+1D7A4", "U+1D7A5", "U+1D7A6", "U+1D7A7", "U+1D7A8",
   "U+1D7AA", "U+1D7AB", "U+1D7AC", "U+1D7AD", "U+1D7AE", "U+1D7AF", "U+1D7B0", "U+1D7B1", "U+1D7B2", "U+1D7B3", "U+1D7B4", "U+1D7B5",
   "U+1D7B6", "U+1D7B7", "U+1D7B8", "U+1D7B9", "U+1D7BA", "U+1D7BB", "U+1D7BC", "U+1D7BD", "U+1D7BE", "U+1D7BF", "U+1D7C0", "U+1D7C1",
   "U+1D7C2", "U+1D7C4", "U+1D7C5", "U+1D7C6", "U+1D7C7", "U+1D7C8", "U+1D7C9", "U+1D7CA", "U+1D7CB", "U+1DF00", "U+1DF01", "U+1DF02",
   "U+1DF03", "U+1DF04", "U+1DF05", "U+1DF06", "U+1DF07", "U+1DF08", "U+1DF09", "U+1DF0B", "U+1DF0C", "U+1DF0D", "U+1DF0E", "U+1DF0F",
   "U+1DF10", "U+1DF11", "U+1DF12", "U+1DF13", "U+1DF14", "U+1DF15", "U+1DF16", "U+1DF17", "U+1DF18", "U+1DF19", "U+1DF1A", "U+1DF1B",
   "U+1DF1C", "U+1DF1D", "U+1DF1E", "U+1DF25", "U+1DF26", "U+1DF27", "U+1DF28", "U+1DF29", "U+1DF2A", "U+1E900", "U+1E901", "U+1E902",
   "U+1E903", "U+1E904", "U+1E905", "U+1E906", "U+1E907", "U+1E908", "U+1E909", "U+1E90A", "U+1E90B", "U+1E90C", "U+1E90D", "U+1E90E",
   "U+1E90F", "U+1E910", "U+1E911", "U+1E912", "U+1E913", "U+1E914", "U+1E915", "U+1E916", "U+1E917", "U+1E918", "U+1E919", "U+1E91A",
   "U+1E91B", "U+1E91C", "U+1E91D", "U+1E91E", "U+1E91F", "U+1E920", "U+1E921", "U+1E922", "U+1E923", "U+1E924", "U+1E925", "U+1E926",
   "U+1E927", "U+1E928", "U+1E929", "U+1E92A", "U+1E92B", "U+1E92C", "U+1E92D", "U+1E92E", "U+1E92F", "U+1E930", "U+1E931", "U+1E932",
   "U+1E933", "U+1E934", "U+1E935", "U+1E936", "U+1E937", "U+1E938", "U+1E939", "U+1E93A", "U+1E93B", "U+1E93C", "U+1E93D", "U+1E93E",
   "U+1E93F", "U+1E940", "U+1E941", "U+1E942", "U+1E943", "U+1F130", "U+1F131", "U+1F132", "U+1F133", "U+1F134", "U+1F135", "U+1F136",
   "U+1F137", "U+1F138", "U+1F139", "U+1F13A", "U+1F13B", "U+1F13C", "U+1F13D", "U+1F13E", "U+1F13F", "U+1F140", "U+1F141", "U+1F142",
   "U+1F143", "U+1F144", "U+1F145", "U+1F146", "U+1F147", "U+1F148", "U+1F149", "U+1F150", "U+1F151", "U+1F152", "U+1F153", "U+1F154",
   "U+1F155", "U+1F156", "U+1F157", "U+1F158", "U+1F159", "U+1F15A", "U+1F15B", "U+1F15C", "U+1F15D", "U+1F15E", "U+1F15F", "U+1F160",
   "U+1F161", "U+1F162", "U+1F163", "U+1F164", "U+1F165", "U+1F166", "U+1F167", "U+1F168", "U+1F169", "U+1F170", "U+1F171", "U+1F172",
   "U+1F173", "U+1F174", "U+1F175", "U+1F176", "U+1F177", "U+1F178", "U+1F179", "U+1F17A", "U+1F17B", "U+1F17C", "U+1F17D", "U+1F17E",
   "U+1F17F", "U+1F180", "U+1F181", "U+1F182", "U+1F183", "U+1F184", "U+1F185", "U+1F186", "U+1F187", "U+1F188", "U+1F189"}

\* The WhiteSpace and LineTerminator code points: what String.prototype.trim
\* removes and parseFloat skips (tab, line feed, vertical tab, form feed,
\* carriage return, space, no-break space, U+1680, U+2000 to U+200A, U+2028,
\* U+2029, U+202F, U+205F, U+3000 and the byte order mark U+FEFF).
WhiteSpace ==
  {"\t", "\n", "", "\f", "\r", " ", " ", " ",
   "U+2000", "U+2001", "U+2002", "U+2003", "U+2004", "U+2005", "U+2006", "U+2007",
   "U+2008", "U+2009", "U+200A", "U+2028", "U+2029", "U+202F", "U+205F", "U+3000",
   "﻿"}

Digits == <<"0","1","2","3","4","5","6","7","8","9">>

IsDigit(c) == \E i \in 1..10 : Digits[i] = c

DigitValue(c) == (CHOOSE i \in 1..10 : Digits[i] = c) - 1

\* The lower case of each character of UpperChars.
LowerCaseMap ==
  [c \in {UpperChars[i] : i \in DOMAIN UpperChars} |->
     LowerChars[CHOOSE i \in DOMAIN UpperChars : UpperChars[i] = c]]

\* The capital sigma at position i of s is in the Final_Sigma context: the
\* nearest character before it that is not case-ignorable is cased, and the
\* nearest one after it, if any, is not.
FinalSigma(s, i) ==
  LET before == {j \in 1..(i - 1) : s[j] \notin CaseIgnorable}
      after == {j \in (i + 1)..Len(s) : s[j] \notin CaseIgnorable}
      last == CHOOSE j \in before : \A k \in before : k <= j
      first == CHOOSE j \in after : \A k \in after : j <= k
  IN  /\ before /= {} /\ s[last] \in CasedLetters
      /\ after = {} \/ s[first] \notin CasedLetters

\* The lower case of the character at position i of s: one character, or
\* two for the capital I with dot above (i and the combining dot above).
LowerChar(s, i) ==
  LET c == s[i]
  IN  IF c \in DOMAIN LowerCaseMap THEN <<LowerCaseMap[c]>>
      ELSE IF c = "Σ" THEN (IF FinalSigma(s, i) THEN <<"ς">> ELSE <<"σ">>)
      ELSE IF c = "U+0130" THEN <<"i", "U+0307">>
      ELSE <<c>>

\* A toLowerCase that leaves the letters as they are.
ToLowerCase_Identity(s) == s

\* String.prototype.toLowerCase
ToLowerCase(s) ==
  LET dotted == {i \in 1..Len(s) : s[i] = "U+0130"}
      \* Where the lower case of s[i] starts in the result.
      Start(i) == i + Cardinality({j \in dotted : j < i})
      From(k) == CHOOSE i \in 1..Len(s) :
                   Start(i) = k \/ (i \in dotted /\ Start(i) + 1 = k)
  IN  IF dotted = {} THEN [i \in 1..Len(s) |-> LowerChar(s, i)[1]]
      ELSE [k \in 1..(Len(s) + Cardinality(dotted)) |->
              LowerChar(s, From(k))[k - Start(From(k)) + 1]]

\* s without the white space at its start.
TrimStart(s) ==
  LET n == CHOOSE i \in 0..Len(s) :
             /\ \A j \in 1..i : s[j] \in WhiteSpace
             /\ i = Len(s) \/ s[i + 1] \notin WhiteSpace
  IN  SubSeq(s, n + 1, Len(s))

\* s without the white space at its end.
TrimEnd(s) ==
  LET n == CHOOSE i \in 0..Len(s) :
             /\ i = 0 \/ s[i] \notin WhiteSpace
             /\ \A j \in (i + 1)..Len(s) : s[j] \in WhiteSpace
  IN  SubSeq(s, 1, n)

\* String.prototype.trim
Trim(s) == TrimEnd(TrimStart(s))

\* Index of the first occurrence of character c in s, 0 when there is none.
IndexOfChar(s, c) ==
  IF \E i \in 1..Len(s) : s[i] = c
  THEN CHOOSE i \in 1..Len(s) : s[i] = c /\ \A j \in 1..(i - 1) : s[j] /= c
  ELSE 0

\* s.replace('$', ''): removes the first '$' of s, wherever it is.
ReplaceDollar(s) ==
  LET i == IndexOfChar(s, "$")
  IN  IF i = 0 THEN s ELSE SubSeq(s, 1, i - 1) \o SubSeq(s, i + 1, Len(s))

(***************************************************************************)
(* Natural numbers of any size, for the arithmetic of parseFloat: the      *)
(* limbs of the number in base 10000, the least significant first, with no *)
(* zero limb at the top (0 is the empty sequence).                         *)
(***************************************************************************)
\* x without the zero limbs at its top.
BigStrip(x) ==
  LET y == SubSeq(x, 1, Len(x))
      n == CHOOSE i \in 0..Len(y) :
             /\ i = 0 \/ y[i] /= 0
             /\ \A j \in (i + 1)..Len(y) : y[j] = 0
  IN  SubSeq(y, 1, n)

\* The limbs of a sum whose limb i, before the carries, is t[i] < 20000:
\* a carry leaves limb j when t[j] >= 10000 and runs on through the limbs
\* that are 9999.
BigCarry(t) ==
  LET Carry(i) == \E j \in 1..i : /\ t[j] >= 10000
                                  /\ \A k \in (j + 1)..i : t[k] = 9999
  IN  BigStrip([i \in 1..(Len(t) + 1) |->
                  ((IF i <= Len(t) THEN t[i] ELSE 0)
                     + (IF Carry(i - 1) THEN 1 ELSE 0)) % 10000])

\* a * f, for f in 0..10000.
BigMul(a, f) ==
  LET x == [i \in 1..Len(a) |-> a[i] * f]
  IN  BigCarry([i \in 1..(Len(a) + 1) |->
                  (IF i <= Len(a) THEN x[i] % 10000 ELSE 0)
                    + (IF i > 1 THEN x[i - 1] \div 10000 ELSE 0)])

\* a + b
BigAdd(a, b) ==
  LET n == IF Len(a) > Len(b) THEN Len(a) ELSE Len(b)
      At(x, i) == IF i <= Len(x) THEN x[i] ELSE 0
  IN  BigCarry([i \in 1..n |-> At(a, i) + At(b, i)])

\* a - b, for a >= b: a borrow leaves limb j when a[j] < b[j] and runs on
\* through the limbs where a and b are equal.
BigSub(a, b) ==
  LET At(x, i) == IF i <= Len(x) THEN x[i] ELSE 0
      Borrow(i) == \E j \in 1..i : /\ a[j] < At(b, j)
                                   /\ \A k \in (j + 1)..i : a[k] = At(b, k)
  IN  BigStrip([i \in 1..Len(a) |->
                  (a[i] - At(b, i) - (IF Borrow(i - 1) THEN 1 ELSE 0)) % 10000])

\* -1, 0 or 1 as a is less than, equal to or greater than b.
BigCmp(a, b) ==
  IF Len(a) /= Len(b) THEN (IF Len(a) < Len(b) THEN -1 ELSE 1)
  ELSE IF a = b THEN 0
  ELSE IF \E i \in 1..Len(a) : /\ a[i] < b[i]
                               /\ \A j \in (i + 1)..Len(a) : a[j] = b[j]
  THEN -1 ELSE 1

\* x with j zero limbs below it: x * 10000^j.
BigShift(x, j) == IF x = <<>> THEN <<>> ELSE [i \in 1..j |-> 0] \o x

\* a * 10^n
BigTimesTen(a, n) ==
  BigShift(BigMul(a, IF n % 4 = 0 THEN 1 ELSE IF n % 4 = 1 THEN 10
                     ELSE IF n % 4 = 2 THEN 100 ELSE 1000),
           n \div 4)

\* a * 2^n
RECURSIVE BigTimesTwo(_, _)
BigTimesTwo(a, n) ==
  IF n = 0 \/ a = <<>> THEN a
  ELSE BigTimesTwo(BigMul(a, IF n >= 13 THEN 8192 ELSE 2),
                   IF n >= 13 THEN n - 13 ELSE n - 1)

\* The quotient and the rest of a divided by b (b > 0), by long division.
BigDivMod(a, b) ==
  LET \* The greatest q of lo..hi with q * y <= r (lo is one such q).
      RECURSIVE Limb(_, _, _, _)
      Limb(r, y, lo, hi) ==
        IF lo = hi THEN lo
        ELSE IF BigCmp(BigMul(y, (lo + hi + 1) \div 2), r) <= 0
        THEN Limb(r, y, (lo + hi + 1) \div 2, hi)
        ELSE Limb(r, y, lo, (lo + hi + 1) \div 2 - 1)
      WithLimb(q, next) == [quo |-> Append(next.quo, q), rem |-> next.rem]
      \* The limbs 1..j of the quotient of r by b, and the rest; q is limb j.
      RECURSIVE Div(_, _)
      RECURSIVE DivLimb(_, _, _)
      DivLimb(r, j, q) == WithLimb(q, Div(BigSub(r, BigMul(BigShift(b, j - 1), q)), j - 1))
      Div(r, j) ==
        IF j = 0 THEN [quo |-> <<>>, rem |-> r]
        ELSE DivLimb(r, j, Limb(r, BigShift(b, j - 1), 0, 9999))
      Stripped(res) == [quo |-> BigStrip(res.quo), rem |-> res.rem]
  IN  Stripped(Div(a, IF Len(a) >= Len(b) THEN Len(a) - Len(b) + 1 ELSE 0))

(***************************************************************************)
(* parseFloat (ECMAScript 19.2.4): skip leading white space, take the      *)
(* longest prefix that is a StrDecimalLiteral (NaN when there is none) and *)
(* return the Number value for it: the IEEE 754 double nearest to it, ties *)
(* to even, infinite from 2^1024 - 2^970 on.                               *)
(***************************************************************************)
\* Length of the longest prefix of s made of decimal digits.
DigitPrefixLen(s) ==
  CHOOSE n \in 0..Len(s) :
    /\ \A j \in 1..n : IsDigit(s[j])
    /\ n = Len(s) \/ ~IsDigit(s[n + 1])

\* Value of a string of decimal digits (0 for the empty string).
RECURSIVE DigitsValue(_)
DigitsValue(s) ==
  IF s = <<>> THEN 0
  ELSE 10 * DigitsValue(SubSeq(s, 1, Len(s) - 1)) + DigitValue(s[Len(s)])

\* s after the first n characters.
Drop(s, n) == SubSeq(s, n + 1, Len(s))

\* TRUE when s starts with the characters of p.
StartsWith(s, p) == Len(s) >= Len(p) /\ SubSeq(s, 1, Len(p)) = p

\* The digits of s without the zeros at its start.
DropZeros(s) ==
  LET n == CHOOSE i \in 0..Len(s) :
             /\ \A j \in 1..i : s[j] = "0"
             /\ i = Len(s) \/ s[i + 1] /= "0"
  IN  SubSeq(s, n + 1, Len(s))

\* The number (-1)^neg * mant * 10^exp in the canonical form of Number: no
\* zero at either end of mant, and 0 written as the digit 0 with exp 0.
Normalize(neg, mant, exp) ==
  LET \* m: the digits from the first that is not 0.
      Canonical(m) ==
        LET n == CHOOSE i \in 0..Len(m) :
                   /\ i = 0 \/ m[i] /= "0"
                   /\ \A j \in (i + 1)..Len(m) : m[j] = "0"
        IN  IF m = <<>> THEN Number(neg, <<"0">>, 0)
            ELSE Number(neg, SubSeq(m, 1, n), exp + Len(m) - n)
  IN  Canonical(DropZeros(mant))

\* The natural number written with the decimal digits of s.
BigFromDigits(s) ==
  LET n == Len(s)
      Low(j) == IF n - 4 * j + 1 < 1 THEN 1 ELSE n - 4 * j + 1
  IN  BigStrip([j \in 1..((n + 3) \div 4) |->
                  DigitsValue(SubSeq(s, Low(j), n - 4 * j + 4))])

\* The double nearest to mant * 10^exp (mant a string of digits that starts
\* with no zero, the value between 10^-325 and 10^310): [m, k] for the
\* double m * 2^k, with 2^52 <= m < 2^53 and k in -1074..971 for a normal
\* number, m < 2^52 and k = -1074 for a subnormal number or zero, and
\* k = 972 when the nearest value is beyond the largest double.
NearestDouble(mant, exp) ==
  LET \* m, rounded up to 2^53, is 2^52 with the next exponent.
      Carried(m, k) ==
        IF m = BigTimesTwo(<<1>>, 53) THEN [m |-> BigTimesTwo(<<1>>, 52), k |-> k + 1]
        ELSE [m |-> m, k |-> k]
      \* The quotient d.quo of a by b, rounded by the rest d.rem, ties to even.
      Rounded(d, b, k) ==
        LET half == BigCmp(BigMul(d.rem, 2), b)
        IN  Carried(IF half > 0 \/ (half = 0 /\ d.quo /= <<>> /\ d.quo[1] % 2 = 1)
                    THEN BigAdd(d.quo, <<1>>) ELSE d.quo,
                    k)
      \* From the least k with a / b < 2^53, b the denominator times 2^k.
      RECURSIVE Fit(_, _, _)
      Fit(a, b, k) ==
        IF BigCmp(a, BigTimesTwo(b, 53)) >= 0 THEN Fit(a, BigMul(b, 2), k + 1)
        ELSE Rounded(BigDivMod(a, b), b, k)
      \* num / den scaled by 2^k0, a binary exponent not above the one
      \* looked for.
      Scaled(num, den, k0) ==
        Fit(BigTimesTwo(num, IF k0 < 0 THEN 0 - k0 ELSE 0),
            BigTimesTwo(den, IF k0 > 0 THEN k0 ELSE 0), k0)
      Estimate(p) ==
        LET est == IF p >= 1 THEN ((p - 1) * 3321928) \div 1000000 - 52
                             ELSE ((p - 1) * 3321929) \div 1000000 - 52
        IN  IF est < -1074 THEN -1074 ELSE est
  IN  Scaled(BigTimesTen(BigFromDigits(mant), IF exp > 0 THEN exp ELSE 0),
             BigTimesTen(<<1>>, IF exp < 0 THEN 0 - exp ELSE 0),
             Estimate(Len(mant) + exp))

\* The decimal digits of a natural number below 10.
DigitChar(d) == Digits[d + 1]

\* Number::toString's choice of digits for the double m * 2^k (m > 0): the
\* shortest decimal whose Number value is this double, the closest to it
\* among the shortest; p is the decimal exponent of a value that rounds to
\* the double.  [mant, exp] for the decimal mant * 10^exp.
ShortestDecimal(m, k, p) ==
  LET even == m[1] % 2 = 0
      \* The gap below a power of two is half the gap above it.
      narrow == m = BigTimesTwo(<<1>>, 52) /\ k > -1074
      \* With value = r / s, gap above = mp / s and gap below = mm / s:
      \* the upper end of the interval reaches 1 (it rounds to the double
      \* when m is even).
      Reaches(r, mp, s) ==
        IF even THEN BigCmp(BigAdd(r, mp), s) >= 0 ELSE BigCmp(BigAdd(r, mp), s) > 0
      Below(rem, mm) ==
        IF even THEN BigCmp(rem, mm) <= 0 ELSE BigCmp(rem, mm) < 0
      \* The last digit: digit or digit + 1, the nearer to the value.
      Last(digit, rem, s) ==
        IF BigCmp(BigMul(rem, 2), s) < 0
           \/ (BigCmp(BigMul(rem, 2), s) = 0 /\ digit % 2 = 0)
        THEN <<DigitChar(digit)>> ELSE <<DigitChar(digit + 1)>>
      \* The digits from the quotient q of 10 * r by s on.
      RECURSIVE Gen(_, _, _, _)
      RECURSIVE Digit(_, _, _, _, _, _)
      Digit(digit, rem, mp, mm, s, low) ==
        IF Reaches(rem, mp, s)
        THEN (IF low THEN Last(digit, rem, s) ELSE <<DigitChar(digit + 1)>>)
        ELSE IF low THEN <<DigitChar(digit)>>
        ELSE <<DigitChar(digit)>> \o Gen(rem, mp, mm, s)
      Quotient(q, mp, mm, s) ==
        Digit(IF q.quo = <<>> THEN 0 ELSE q.quo[1], q.rem, mp, mm, s, Below(q.rem, mm))
      Gen(r, mp, mm, s) ==
        Quotient(BigDivMod(BigMul(r, 10), s), BigMul(mp, 10), BigMul(mm, 10), s)
      Result(digits, e) == [mant |-> digits, exp |-> e - Len(digits)]
      \* The greatest decimal exponent e with 10^(e - 1) <= value + gap
      \* above (< when the end does not round to the double), from above.
      RECURSIVE Down(_, _, _, _, _)
      Down(r, mp, mm, s, e) ==
        IF Reaches(BigMul(r, 10), BigMul(mp, 10), s) THEN Result(Gen(r, mp, mm, s), e)
        ELSE Down(BigMul(r, 10), BigMul(mp, 10), BigMul(mm, 10), s, e - 1)
      \* The same from below; moved when e was raised.
      RECURSIVE Up(_, _, _, _, _, _)
      Up(r, mp, mm, s, e, moved) ==
        IF Reaches(r, mp, s) THEN Up(r, mp, mm, BigMul(s, 10), e + 1, TRUE)
        ELSE IF moved THEN Result(Gen(r, mp, mm, s), e)
        ELSE Down(r, mp, mm, s, e)
      \* value = r / s, gap above = mp / s, gap below = mm / s
      Start(r, s, mp, mm) ==
        Up(BigTimesTen(r, IF p < 0 THEN 0 - p ELSE 0),
           BigTimesTen(mp, IF p < 0 THEN 0 - p ELSE 0),
           BigTimesTen(mm, IF p < 0 THEN 0 - p ELSE 0),
           BigTimesTen(s, IF p > 0 THEN p ELSE 0), p, FALSE)
  IN  Start(BigTimesTwo(BigMul(m, IF narrow THEN 4 ELSE 2), IF k > 0 THEN k ELSE 0),
            BigTimesTwo(<<IF narrow THEN 4 ELSE 2>>, IF k < 0 THEN 0 - k ELSE 0),
            BigTimesTwo(<<IF narrow THEN 2 ELSE 1>>, IF k > 0 THEN k ELSE 0),
            BigTimesTwo(<<1>>, IF k > 0 THEN k ELSE 0))

\* The number of the double near, one of NearestDouble's, with the sign
\* neg; p is the decimal exponent of the value.
DoubleNumber(neg, near, p) ==
  LET Short(short) == Normalize(neg, short.mant, short.exp)
  IN  IF near.k > 971 THEN Infinity(neg)
      ELSE IF near.m = <<>> THEN Number(neg, <<"0">>, 0)
      ELSE Short(ShortestDecimal(near.m, near.k, p))

\* The Number value for the decimal n in canonical form.
CanonicalValue(n) ==
  LET len == Len(n.mant)
      p == Len(n.mant) + n.exp
  IN  IF n.mant = <<"0">> THEN n
      ELSE IF p > 309 THEN Infinity(n.neg)
      ELSE IF p < -324 THEN Number(n.neg, <<"0">>, 0)
      \* A decimal of 15 digits or fewer in this range is the shortest
      \* decimal of the double nearest to it.
      ELSE IF len <= 15 /\ p >= -300 /\ p <= 300 THEN n
      \* Beyond 800 digits only whether a digit other than 0 follows
      \* matters.
      ELSE DoubleNumber(n.neg,
                        NearestDouble(IF len <= 800 THEN n.mant
                                      ELSE SubSeq(n.mant, 1, 800) \o <<"1">>,
                                      IF len <= 800 THEN n.exp ELSE n.exp + len - 801),
                        p)

\* The Number value for the decimal (-1)^neg * mant * 10^exp, mant a string
\* of digits.
NumberValue(neg, mant, exp) == CanonicalValue(Normalize(neg, mant, exp))

InfinityLiteral == <<"I","n","f","i","n","i","t","y">>

\* TRUE when s starts with a sign.
IsSigned(s) == s /= <<>> /\ Head(s) \in {"+", "-"}

\* The value of the exponent whose digits, after the sign, are at the start
\* of u.  An exponent of more than nine digits is taken as 1000000000, as
\* the runtime takes one above 1073741823 as 1073741823: a string has fewer
\* than 2^30 characters, so that with either exponent the value of a
\* mantissa other than 0 is infinite, or is 0, whatever the mantissa is.
ExponentDigits(neg, u) ==
  LET Value(digits) == IF Len(digits) > 9 THEN 1000000000 ELSE DigitsValue(digits)
      n == DigitPrefixLen(u)
  IN  IF n = 0 THEN 0
      ELSE IF neg THEN 0 - Value(DropZeros(SubSeq(u, 1, n)))
      ELSE Value(DropZeros(SubSeq(u, 1, n)))

\* The ExponentPart at the start of s: its value, 0 when s does not start
\* with a complete ExponentPart (e or E, an optional sign, one digit or
\* more).
ExponentValue(s) ==
  IF s = <<>> \/ Head(s) \notin {"e", "E"} THEN 0
  ELSE ExponentDigits(IsSigned(Tail(s)) /\ s[2] = "-",
                      IF IsSigned(Tail(s)) THEN Tail(Tail(s)) ELSE Tail(s))

\* TRUE when a point follows the first nInt characters of u.
HasDot(u, nInt) == Len(u) > nInt /\ u[nInt + 1] = "."

\* The value of the StrDecimalLiteral at the start of u, after its sign: u
\* starts with nInt digits and, after a point, nFrac digits.
DecimalLiteral(neg, u, nInt, nFrac) ==
  IF StartsWith(u, InfinityLiteral) THEN Infinity(neg)
  ELSE IF nInt = 0 /\ nFrac = 0 THEN NaN
  ELSE NumberValue(neg,
                   SubSeq(u, 1, nInt) \o SubSeq(u, nInt + 2, nInt + 1 + nFrac),
                   ExponentValue(Drop(u, IF HasDot(u, nInt) THEN nInt + 1 + nFrac
                                         ELSE nInt)) - nFrac)

\* The same, u starting with nInt digits.
DecimalFraction(neg, u, nInt) ==
  DecimalLiteral(neg, u, nInt,
                 IF HasDot(u, nInt) THEN DigitPrefixLen(Drop(u, nInt + 1)) ELSE 0)

\* The same, t starting with the sign if there is one.
SignedDecimal(t) ==
  DecimalFraction(IsSigned(t) /\ Head(t) = "-",
                  IF IsSigned(t) THEN Tail(t) ELSE t,
                  DigitPrefixLen(IF IsSigned(t) THEN Tail(t) ELSE t))

ParseFloat(s) == SignedDecimal(TrimStart(s))

(***************************************************************************)
(* new Date(string) and Date.prototype.toISOString.  The string is parsed  *)
(* as V8 parses it: as far as it goes as an ECMAScript date-time string,   *)
(* and from the first token that does not fit, by the legacy parser, which *)
(* takes numbers, month names, AM and PM, time zone names and offsets in   *)
(* any order.  A string without a time zone is a local time, in the zone   *)
(* TZ names.  A time value is kept as the day since the epoch and the      *)
(* millisecond of that day.                                                *)
(***************************************************************************)
\* The time value of an Invalid Date.
InvalidDate == [kind |-> "Invalid Date"]

TimeValue(day, ms) == [kind |-> "time", day |-> day, ms |-> ms]

\* Days from 1970-01-01 to the first day of month m of year y, plus d - 1
\* (MakeDay: a day past the end of the month runs into the next month).
DaysFromCivil(y, m, d) ==
  LET yy == IF m <= 2 THEN y - 1 ELSE y
      era == yy \div 400
      yoe == yy - era * 400
      mp == IF m > 2 THEN m - 3 ELSE m + 9
      doy == (153 * mp + 2) \div 5 + d - 1
      doe == yoe * 365 + yoe \div 4 - yoe \div 100 + doy
  IN  era * 146097 + doe - 719468

\* <<year, month, day>> of the day z days after 1970-01-01.
CivilFromDays(z) ==
  LET zz == z + 719468
      era == zz \div 146097
      doe == zz - era * 146097
      yoe == (doe - doe \div 1460 + doe \div 36524 - doe \div 146096) \div 365
      doy == doe - (365 * yoe + yoe \div 4 - yoe \div 100)
      mp == (5 * doy + 2) \div 153
      d == doy - (153 * mp + 2) \div 5 + 1
      m == IF mp < 10 THEN mp + 3 ELSE mp - 9
      y == yoe + era * 400
  IN  <<IF m <= 2 THEN y + 1 ELSE y, m, d>>

\* The characters whose code is below the code of A: the others, white
\* space apart, make the words of a date string.
BelowA ==
  {"U+0000", "", "", "", "", "", "", "", "", "\t", "\n", "", "\f",
   "\r", "", "", "", "", "", "", "", "", "", "", "", "",
   "", "", "", "", "", "", " ", "!", "\"", "#", "$", "%", "&",
   "'", "(", ")", "*", "+", ",", "-", ".", "/", "0", "1", "2", "3",
   "4", "5", "6", "7", "8", "9", ":", ";", "<", "=", ">", "?", "@"}

\* The words the date parser knows, by their first three letters in lower
\* case, with their kind and value: the months, AM and PM, the time zones
\* with their offset in hours, and the T between date and time.
DateKeywords ==
  << <<<<"j","a","n">>, "month", 1>>, <<<<"f","e","b">>, "month", 2>>,
     <<<<"m","a","r">>, "month", 3>>, <<<<"a","p","r">>, "month", 4>>,
     <<<<"m","a","y">>, "month", 5>>, <<<<"j","u","n">>, "month", 6>>,
     <<<<"j","u","l">>, "month", 7>>, <<<<"a","u","g">>, "month", 8>>,
     <<<<"s","e","p">>, "month", 9>>, <<<<"o","c","t">>, "month", 10>>,
     <<<<"n","o","v">>, "month", 11>>, <<<<"d","e","c">>, "month", 12>>,
     <<<<"a","m">>, "ampm", 0>>, <<<<"p","m">>, "ampm", 12>>,
     <<<<"u","t">>, "zone", 0>>, <<<<"u","t","c">>, "zone", 0>>,
     <<<<"z">>, "zone", 0>>, <<<<"g","m","t">>, "zone", 0>>,
     <<<<"c","d","t">>, "zone", -5>>, <<<<"c","s","t">>, "zone", -6>>,
     <<<<"e","d","t">>, "zone", -4>>, <<<<"e","s","t">>, "zone", -5>>,
     <<<<"m","d","t">>, "zone", -6>>, <<<<"m","s","t">>, "zone", -7>>,
     <<<<"p","d","t">>, "zone", -7>>, <<<<"p","s","t">>, "zone", -8>> ,
     <<<<"t">>, "T", 0>> >>

\* The lower case of an ASCII letter; any other character is left as it is.
AsciiToLower(c) ==
  LET upper == <<"A", "B", "C", "D", "E", "F", "G", "H", "I", "J", "K", "L", "M",
                 "N", "O", "P", "Q", "R", "S", "T", "U", "V", "W", "X", "Y", "Z">>
      lower == <<"a", "b", "c", "d", "e", "f", "g", "h", "i", "j", "k", "l", "m",
                 "n", "o", "p", "q", "r", "s", "t", "u", "v", "w", "x", "y", "z">>
  IN  IF \E u \in 1..26 : upper[u] = c
      THEN lower[CHOOSE u \in 1..26 : upper[u] = c] ELSE c

\* A token of a date string: a number (its value, of its first nine digits
\* after the zeros, and its length in characters), one of the symbols
\* : - + . ), a word (its kind and value, "none" for a word that is not
\* known, and its length), a white space character, anything else, or the
\* end of the string.
DateToken(t, kind, v, len) == [t |-> t, kind |-> kind, v |-> v, len |-> len]

\* The tokens of s (DateStringTokenizer::Scan, to the end of the string or
\* to its first NUL character).
DateTokens(s) ==
  LET n == CHOOSE i \in 0..Len(s) :
             /\ \A j \in 1..i : s[j] /= "U+0000"
             /\ i = Len(s) \/ s[i + 1] = "U+0000"
      \* IsAsciiAlphaOrAbove and not IsWhiteSpace: the line terminators
      \* U+2028 and U+2029 are no white space here and belong to a word.
      IsWordChar(c) == c \notin BelowA /\ c \notin WhiteSpace \ {"U+2028", "U+2029"}
      \* The last position of the digits that start at i.
      NumberEnd(i) == CHOOSE j \in i..n :
                        /\ \A k \in i..j : IsDigit(s[k])
                        /\ j = n \/ ~IsDigit(s[j + 1])
      \* The last position of the word that starts at i.
      WordEnd(i) == CHOOSE j \in i..n :
                      /\ \A k \in i..j : IsWordChar(s[k])
                      /\ j = n \/ ~IsWordChar(s[j + 1])
      \* Opening less closing parentheses in positions i..j.
      Balance(i, j) == Cardinality({k \in i..j : s[k] = "("})
                         - Cardinality({k \in i..j : s[k] = ")"})
      \* The last position of the parenthesised text that starts at i.
      ParenEnd(i) == CHOOSE j \in i..n :
                       /\ \A k \in i..(j - 1) : Balance(i, k) > 0
                       /\ j = n \/ Balance(i, j) = 0
      NumberToken(i, j) ==
        LET digits == DropZeros(SubSeq(s, i, j))
        IN  DateToken("number", "",
                      DigitsValue(SubSeq(digits, 1, IF Len(digits) < 9 THEN Len(digits) ELSE 9)),
                      j - i + 1)
      WordToken(i, j) ==
        LET prefix == [k \in 1..(IF j - i + 1 < 3 THEN j - i + 1 ELSE 3) |->
                         AsciiToLower(s[i + k - 1])]
            known == {e \in 1..Len(DateKeywords) :
                        /\ DateKeywords[e][1] = prefix
                        /\ j - i + 1 <= 3 \/ DateKeywords[e][2] = "month"}
            entry == DateKeywords[CHOOSE e \in known : TRUE]
        IN  IF known = {} THEN DateToken("word", "none", 0, j - i + 1)
            ELSE DateToken("word", entry[2], entry[3], j - i + 1)
      \* The token that starts at i and the position after it.
      Scan(i) ==
        LET c == s[i]
        IN  IF IsDigit(c) THEN <<NumberToken(i, NumberEnd(i)), NumberEnd(i) + 1>>
            ELSE IF c \in {":", "-", "+", ".", ")"}
            THEN <<DateToken("symbol", c, 0, 1), i + 1>>
            ELSE IF IsWordChar(c) THEN <<WordToken(i, WordEnd(i)), WordEnd(i) + 1>>
            ELSE IF c \in WhiteSpace THEN <<DateToken("space", "", 0, 1), i + 1>>
            ELSE IF c = "(" THEN <<DateToken("unknown", "", 0, 0), ParenEnd(i) + 1>>
            ELSE <<DateToken("unknown", "", 0, 0), i + 1>>
      RECURSIVE From(_)
      From(i) == IF i > n THEN <<>>
                 ELSE LET t == Scan(i) IN <<t[1]>> \o From(t[2])
  IN  From(1)

\* The three composers of the date parser, before anything is read: the
\* numbers of the day (at most three), a month given by name (0: none),
\* the numbers of the time (at most four), the hours AM or PM adds (-1:
\* none), the sign, hour and minute of the time zone (0 and -1: none),
\* whether the date is an ECMAScript date, and whether a number was read.
DateComposers ==
  [day |-> <<>>, month |-> 0, time |-> <<>>, offset |-> -1,
   sign |-> 0, hour |-> -1, minute |-> -1, iso |-> FALSE, read |-> FALSE]

\* ReadMilliseconds: the first three digits after the point as milliseconds.
ReadMilliseconds(token) ==
  LET len == IF token.len > 9 THEN 9 ELSE token.len
      RECURSIVE Factor(_)
      Factor(l) == IF l > 3 THEN 10 * Factor(l - 1) ELSE 1
  IN  IF token.len = 1 THEN token.v * 100
      ELSE IF token.len = 2 THEN token.v * 10
      ELSE token.v \div Factor(len)

\* ParseES5DateTime: the string as [+-]yyyyyy or yyyy, -MM, -DD, then T,
\* HH:mm, :ss, .sss and Z or [+-]hh:mm.  The outcome is "done" with the
\* composers filled, "invalid", or "legacy" with the composers as far as
\* they were filled and the tokens that are left for the legacy parser.
ParseES5DateTime(toks) ==
  LET End == DateToken("end", "", 0, 0)
      T(i) == IF i <= Len(toks) THEN toks[i] ELSE End
      Fixed(i, len) == T(i).t = "number" /\ T(i).len = len
      Sym(i, c) == T(i).t = "symbol" /\ T(i).kind = c
      Invalid == [outcome |-> "invalid", st |-> DateComposers, left |-> <<>>]
      \* The token at first is handed back and the scanner stands at rest.
      Legacy(day, first, rest) ==
        [outcome |-> "legacy",
         st |-> [DateComposers EXCEPT !.day = day, !.read = day /= <<>>],
         left |-> (IF first <= Len(toks) THEN <<toks[first]>> ELSE <<>>)
                    \o SubSeq(toks, rest, Len(toks))]
      Done(day, time, zone) ==
        [outcome |-> "done",
         st |-> IF zone.sign = 0 /\ time = <<>>
                THEN [DateComposers EXCEPT !.day = day, !.iso = TRUE,
                        !.sign = 1, !.hour = 0, !.minute = 0]
                ELSE [DateComposers EXCEPT !.day = day, !.time = time, !.iso = TRUE,
                        !.sign = zone.sign, !.hour = zone.hour, !.minute = zone.minute],
         left |-> <<>>]
      NoZone == [sign |-> 0, hour |-> -1, minute |-> -1]
      \* The time zone at token i, after the time.
      Zone(day, time, i) ==
        IF T(i).t = "word" /\ T(i).kind = "zone" /\ T(i).len = 1
        THEN (IF T(i + 1).t = "end"
              THEN Done(day, time, [sign |-> 1, hour |-> 0, minute |-> 0])
              ELSE Invalid)
        ELSE IF Sym(i, "+") \/ Sym(i, "-")
        THEN LET sign == IF Sym(i, "+") THEN 1 ELSE -1
             IN  IF Fixed(i + 1, 4)
                 THEN (IF T(i + 1).v \div 100 <= 23 /\ T(i + 1).v % 100 <= 59
                          /\ T(i + 2).t = "end"
                       THEN Done(day, time, [sign |-> sign, hour |-> T(i + 1).v \div 100,
                                             minute |-> T(i + 1).v % 100])
                       ELSE Invalid)
                 ELSE IF /\ Fixed(i + 1, 2) /\ T(i + 1).v <= 23
                         /\ Sym(i + 2, ":")
                         /\ Fixed(i + 3, 2) /\ T(i + 3).v <= 59
                         /\ T(i + 4).t = "end"
                 THEN Done(day, time, [sign |-> sign, hour |-> T(i + 1).v,
                                       minute |-> T(i + 3).v])
                 ELSE Invalid
        ELSE IF T(i).t = "end" THEN Done(day, time, NoZone)
        ELSE Invalid
      \* The time after the T at token i - 1: HH:mm, then :ss, then .sss;
      \* 24 is an hour only in 24:00:00.000.
      Time(day, i) ==
        LET is24 == T(i).v = 24
            Part(j, max) == Fixed(j, 2) /\ T(j).v <= max /\ ~(is24 /\ T(j).v > 0)
        IN  IF ~(Fixed(i, 2) /\ T(i).v <= 24 /\ Sym(i + 1, ":") /\ Part(i + 2, 59))
            THEN Invalid
            ELSE IF ~Sym(i + 3, ":") THEN Zone(day, <<T(i).v, T(i + 2).v>>, i + 3)
            ELSE IF ~Part(i + 4, 59) THEN Invalid
            ELSE IF ~Sym(i + 5, ".")
            THEN Zone(day, <<T(i).v, T(i + 2).v, T(i + 4).v>>, i + 5)
            ELSE IF T(i + 6).t /= "number" \/ (is24 /\ T(i + 6).v > 0) THEN Invalid
            ELSE Zone(day, <<T(i).v, T(i + 2).v, T(i + 4).v, ReadMilliseconds(T(i + 6))>>,
                      i + 7)
      \* After the date: the T of the time, the end, or something else.
      AfterDate(day, i) ==
        IF T(i).t = "word" /\ T(i).kind = "T" THEN Time(day, i + 1)
        ELSE IF T(i).t = "end" THEN Done(day, <<>>, NoZone)
        ELSE Legacy(day, i, i + 1)
      \* -DD at token i.
      Day(day, i) ==
        IF ~Sym(i, "-") THEN AfterDate(day, i)
        ELSE IF Fixed(i + 1, 2) /\ T(i + 1).v \in 1..31
        THEN AfterDate(Append(day, T(i + 1).v), i + 2)
        ELSE Legacy(day, i + 1, i + 2)
      \* -MM at token i.
      Month(day, i) ==
        IF ~Sym(i, "-") THEN AfterDate(day, i)
        ELSE IF Fixed(i + 1, 2) /\ T(i + 1).v \in 1..12
        THEN Day(Append(day, T(i + 1).v), i + 2)
        ELSE Legacy(day, i + 1, i + 2)
  IN  IF Sym(1, "+") \/ Sym(1, "-")
      THEN (IF ~Fixed(2, 6) THEN Legacy(<<>>, 1, 2)
            ELSE IF Sym(1, "-") /\ T(2).v = 0 THEN Legacy(<<>>, 1, 3)
            ELSE Month(<<IF Sym(1, "-") THEN 0 - T(2).v ELSE T(2).v>>, 3))
      ELSE IF Fixed(1, 4) THEN Month(<<T(1).v>>, 2)
      ELSE Legacy(<<>>, 1, 2)

\* The legacy parser: the loop of DateParser::Parse over the tokens left,
\* from the composers st.  [ok, st]: whether the tokens were accepted, and
\* the composers at the end.
LegacyDateParse(toks, st0) ==
  LET End == DateToken("end", "", 0, 0)
      T(i) == IF i <= Len(toks) THEN toks[i] ELSE End
      Sym(i, c) == T(i).t = "symbol" /\ T(i).kind = c
      Fail == [ok |-> FALSE, i |-> 0, st |-> st0]
      Go(i, st) == [ok |-> TRUE, i |-> i, st |-> st]
      \* TimeComposer::IsExpecting
      TimeExpects(st, n) == \/ Len(st.time) = 1 /\ n <= 59
                            \/ Len(st.time) = 2 /\ n <= 59
                            \/ Len(st.time) = 3 /\ n <= 999
      \* TimeComposer::AddFinal
      AddFinal(time, n) ==
        IF Len(time) >= 4 THEN time
        ELSE [k \in 1..4 |-> IF k <= Len(time) THEN time[k]
                             ELSE IF k = Len(time) + 1 THEN n ELSE 0]
      \* A number n at token i.
      OnNumber(i, st) ==
        LET n == T(i).v
            read == [st EXCEPT !.read = TRUE]
            \* The token after the number, and after a point that follows it.
            j == IF Sym(i + 1, ".") THEN i + 2 ELSE i + 1
        IN  IF Sym(i + 1, ":")
            THEN (IF Sym(i + 2, ":")
                  THEN (IF st.time /= <<>> THEN Fail
                        ELSE Go(i + 3, [read EXCEPT !.time = <<n, 0>>]))
                  ELSE IF Len(st.time) >= 4 THEN Fail
                  ELSE Go(IF Sym(i + 2, ".") THEN i + 3 ELSE i + 2,
                          [read EXCEPT !.time = Append(st.time, n)]))
            ELSE IF Sym(i + 1, ".") /\ TimeExpects(st, n)
            THEN (IF T(j).t /= "number" THEN Fail
                  ELSE Go(j + 1, [read EXCEPT !.time =
                                    AddFinal(Append(st.time, n), ReadMilliseconds(T(j)))]))
            ELSE IF st.hour /= -1 /\ st.minute = -1 /\ n <= 59
            THEN Go(j, [read EXCEPT !.minute = n])
            ELSE IF TimeExpects(st, n)
            THEN (IF \/ T(j).t \in {"end", "space"}
                     \/ T(j).t = "word" /\ T(j).kind = "zone" /\ T(j).len = 1
                     \/ Sym(j, "+") \/ Sym(j, "-")
                  THEN Go(j, [read EXCEPT !.time = AddFinal(st.time, n)])
                  ELSE Fail)
            ELSE IF Len(st.day) >= 3 THEN Fail
            ELSE Go(IF Sym(j, "-") THEN j + 1 ELSE j,
                    [read EXCEPT !.day = Append(st.day, n)])
      \* A word at token i.
      OnWord(i, st) ==
        IF T(i).kind = "ampm" /\ st.time /= <<>>
        THEN Go(i + 1, [st EXCEPT !.offset = T(i).v])
        ELSE IF T(i).kind = "month"
        THEN Go(IF Sym(i + 1, "-") THEN i + 2 ELSE i + 1, [st EXCEPT !.month = T(i).v])
        ELSE IF T(i).kind = "zone" /\ st.read
        THEN Go(i + 1, [st EXCEPT !.sign = IF T(i).v < 0 THEN -1 ELSE 1,
                                  !.hour = IF T(i).v < 0 THEN 0 - T(i).v ELSE T(i).v,
                                  !.minute = 0])
        ELSE IF st.read \/ T(i + 1).t = "number" THEN Fail
        ELSE Go(i + 1, st)
      \* A sign at token i, after UTC or a time: the offset from UTC.
      OnSign(i, st) ==
        LET numbered == T(i + 1).t = "number"
            n == IF numbered THEN T(i + 1).v ELSE 0
            len == IF numbered THEN T(i + 1).len ELSE 0
            j == IF numbered THEN i + 2 ELSE i + 1
            signed == [st EXCEPT !.read = TRUE, !.sign = IF Sym(i, "-") THEN -1 ELSE 1]
        IN  IF Sym(j, ":") THEN Go(j, [signed EXCEPT !.hour = n, !.minute = -1])
            ELSE IF len \in {1, 2} THEN Go(j, [signed EXCEPT !.hour = n, !.minute = 0])
            ELSE IF len \in {3, 4}
            THEN Go(j, [signed EXCEPT !.hour = n \div 100, !.minute = n % 100])
            ELSE Fail
      Step(i, st) ==
        IF T(i).t = "number" THEN OnNumber(i, st)
        ELSE IF T(i).t = "word" THEN OnWord(i, st)
        ELSE IF /\ Sym(i, "+") \/ Sym(i, "-")
                /\ (st.hour = 0 /\ st.minute = 0) \/ st.time /= <<>>
        THEN OnSign(i, st)
        ELSE IF (Sym(i, "+") \/ Sym(i, "-") \/ Sym(i, ")")) /\ st.read THEN Fail
        ELSE Go(i + 1, st)
      RECURSIVE Loop(_, _)
      Loop(i, st) ==
        LET next == Step(i, st)
        IN  IF i > Len(toks) THEN [ok |-> TRUE, st |-> st]
            ELSE IF ~next.ok THEN [ok |-> FALSE, st |-> st]
            ELSE Loop(next.i, next.st)
  IN  Loop(1, st0)

\* The decimal digits of n, padded with zeros on the left to width w.
RECURSIVE Pad(_, _)
Pad(n, w) ==
  IF w = 0 THEN <<>> ELSE Pad(n \div 10, w - 1) \o <<Digits[(n % 10) + 1]>>

\* DayComposer::Write: the year, month and day of the numbers of the day,
\* in the order year-month-day for an ECMAScript date or when the first
\* number is no day of a month, month-day-year otherwise, a month given by
\* name taking its place; years 0 to 49 are 2000 to 2049 and 50 to 99 are
\* 1950 to 1999 outside an ECMAScript date.
DayOf(st) ==
  LET Comp(k) == IF k <= Len(st.day) THEN st.day[k] ELSE 1
      Year(y) == IF st.iso THEN y
                 ELSE IF y \in 0..49 THEN y + 2000
                 ELSE IF y \in 50..99 THEN y + 1900
                 ELSE y
      Date(y, m, d) == [ok |-> st.day /= <<>> /\ m \in 1..12 /\ d \in 1..31,
                        year |-> Year(y), month |-> m, day |-> d]
  IN  IF st.month = 0
      THEN (IF st.iso \/ Comp(1) \notin 1..31 THEN Date(Comp(1), Comp(2), Comp(3))
            ELSE Date(Comp(3), Comp(1), Comp(2)))
      ELSE IF Comp(1) \notin 1..31 THEN Date(Comp(1), st.month, Comp(2))
      ELSE Date(Comp(2), st.month, Comp(1))

\* TimeComposer::Write: the milliseconds from the start of the day to the
\* time, 12 AM being hour 0 and 12 PM hour 12; 24:00:00.000 is a time.
DayTime(st) ==
  LET Part(k) == IF k <= Len(st.time) THEN st.time[k] ELSE 0
      hour == IF st.offset = -1 THEN Part(1) ELSE (Part(1) % 12) + st.offset
      ok == /\ st.offset /= -1 => Part(1) <= 12
            /\ \/ hour <= 23 /\ Part(2) <= 59 /\ Part(3) <= 59 /\ Part(4) <= 999
               \/ hour = 24 /\ Part(2) = 0 /\ Part(3) = 0 /\ Part(4) = 0
  IN  [ok |-> ok,
       ms |-> IF ok THEN ((hour * 60 + Part(2)) * 60 + Part(3)) * 1000 + Part(4) ELSE 0]

\* TimeZoneComposer::Write: the offset from UTC in seconds, computed in 32
\* bits and refused above 2^31 - 1; local when the string gives no zone.
ZoneOffset(st) ==
  LET At(w, i) == IF i <= Len(w) THEN w[i] ELSE 0
      Wrapped(w) ==
        IF BigCmp(w, <<3647, 4748, 21>>) > 0
        THEN [ok |-> FALSE, local |-> FALSE, seconds |-> 0]
        ELSE [ok |-> TRUE, local |-> FALSE,
              seconds |-> st.sign * (At(w, 1) + 10000 * At(w, 2) + 100000000 * At(w, 3))]
  IN  IF st.sign = 0 THEN [ok |-> TRUE, local |-> TRUE, seconds |-> 0]
      ELSE Wrapped(BigDivMod(BigAdd(BigMul(BigFromDigits(Pad(IF st.hour = -1 THEN 0
                                                             ELSE st.hour, 10)),
                                           3600),
                                    BigMul(BigFromDigits(Pad(IF st.minute = -1 THEN 0
                                                             ELSE st.minute, 10)),
                                           60)),
                             <<7296, 9496, 42>>).rem)

\* TZ=America/Chicago
TimeZoneChicago == <<"A","m","e","r","i","c","a","/","C","h","i","c","a","g","o">>

\* TZ=UTC
TimeZoneUTC == <<"U","T","C">>

\* The stretch of the local year y in America/Chicago that is five hours
\* behind UTC: from 3:00 of the day from to 2:00 of the day to; on is FALSE
\* in a year without one.  Daylight time of 1918 to 1919 and from 1920 on
\* (March of the second Sunday to November of the first from 2007), Eastern
\* Standard Time from March to November 1936, war time from February 1942
\* to September 1945.
ChicagoFiveHours(y) ==
  LET WeekDay(n) == (n + 4) % 7
      LastSunday(m, last) ==
        DaysFromCivil(y, m, last) - WeekDay(DaysFromCivil(y, m, last))
      SundayFrom(m, d) ==
        DaysFromCivil(y, m, d) + ((7 - WeekDay(DaysFromCivil(y, m, d))) % 7)
      Stretch(a, b) == [on |-> TRUE, from |-> a, to |-> b]
      yearStart == DaysFromCivil(y, 1, 1) - 1
      yearEnd == DaysFromCivil(y + 1, 1, 1)
  IN  IF y < 1918 THEN [on |-> FALSE, from |-> 0, to |-> 0]
      ELSE IF y <= 1919 THEN Stretch(LastSunday(3, 31), LastSunday(10, 31))
      ELSE IF y = 1920 THEN Stretch(DaysFromCivil(y, 6, 13), LastSunday(10, 31))
      ELSE IF y = 1921 THEN Stretch(LastSunday(3, 31), LastSunday(10, 31))
      ELSE IF y = 1936 THEN Stretch(DaysFromCivil(y, 3, 1), DaysFromCivil(y, 11, 15))
      ELSE IF y = 1942 THEN Stretch(DaysFromCivil(y, 2, 9), yearEnd)
      ELSE IF y \in {1943, 1944} THEN Stretch(yearStart, yearEnd)
      ELSE IF y = 1945 THEN Stretch(yearStart, DaysFromCivil(y, 9, 30))
      ELSE IF y <= 1954 THEN Stretch(LastSunday(4, 30), LastSunday(9, 30))
      ELSE IF y <= 1973 THEN Stretch(LastSunday(4, 30), LastSunday(10, 31))
      ELSE IF y = 1974 THEN Stretch(DaysFromCivil(y, 1, 6), LastSunday(10, 31))
      ELSE IF y = 1975 THEN Stretch(DaysFromCivil(y, 2, 23), LastSunday(10, 31))
      ELSE IF y <= 1986 THEN Stretch(LastSunday(4, 30), LastSunday(10, 31))
      ELSE IF y <= 2006 THEN Stretch(SundayFrom(4, 1), LastSunday(10, 31))
      ELSE Stretch(SundayFrom(3, 8), SundayFrom(11, 1))

\* The offset from UTC, in seconds, of the local time (day, ms) in
\* America/Chicago: local mean time, 5:50:36 behind, before the noon of
\* 1883-11-18, six hours behind after it, five in the stretch of the year.
\* A local time that the clocks skip or show twice is read with the offset
\* in force before the change.
ChicagoOffset(day, ms) ==
  LET AtOrAfter(d, at) == day > d \/ (day = d /\ ms >= at)
      stretch == ChicagoFiveHours(CivilFromDays(day)[1])
  IN  IF ~AtOrAfter(DaysFromCivil(1883, 11, 18), 43764000) THEN -21036
      ELSE IF /\ stretch.on
              /\ AtOrAfter(stretch.from, 10800000)
              /\ ~AtOrAfter(stretch.to, 7200000)
      THEN -18000
      ELSE -21600

\* LocalTimeOffset: the offset from UTC, in seconds, of the local time
\* (day, ms) in the zone tz, the value of TZ; UTC when TZ is not set, as on
\* the runner of the workflow.
LocalOffset(tz, day, ms) ==
  CASE tz = TimeZoneChicago -> ChicagoOffset(day, ms)
    [] tz \in {UNDEFINED, TimeZoneUTC} -> 0

\* TimeClip of the time ms milliseconds after the start of the day day and
\* seconds seconds before UTC: Invalid Date more than 100000000 days from
\* the epoch.
ClippedTime(day, ms, seconds) ==
  LET d == (day - (seconds \div 86400))
             + ((ms - (seconds % 86400) * 1000) \div 86400000)
      m == (ms - (seconds % 86400) * 1000) % 86400000
  IN  IF d < -100000000 \/ d > 100000000 THEN InvalidDate
      ELSE IF d = 100000000 /\ m > 0 THEN InvalidDate
      ELSE TimeValue(d, m)

\* MakeDay, MakeTime, MakeDate, ToUTC and TimeClip: the time value of a
\* date, a time of the day and an offset from UTC, that of the zone tz for a
\* local time; Invalid Date when one of them is out of its range or the
\* year beyond 1000000.
MakeDate(date, time, zone, tz) ==
  IF ~(date.ok /\ time.ok /\ zone.ok) THEN InvalidDate
  ELSE IF date.year < -1000000 \/ date.year > 1000000 THEN InvalidDate
  ELSE ClippedTime(DaysFromCivil(date.year, date.month, date.day), time.ms,
                   IF zone.local
                   THEN LocalOffset(tz,
                          DaysFromCivil(date.year, date.month, date.day)
                            + (time.ms \div 86400000),
                          time.ms % 86400000)
                   ELSE zone.seconds)

\* The time value of the composers st in the zone tz.
ComposedTime(st, tz) == MakeDate(DayOf(st), DayTime(st), ZoneOffset(st), tz)

\* The time value after the legacy parser.
LegacyDate(res, tz) == IF res.ok THEN ComposedTime(res.st, tz) ELSE InvalidDate

\* The time value after ParseES5DateTime: the legacy parser takes the tokens
\* that are left.
ES5Date(es5, tz) ==
  IF es5.outcome = "invalid" THEN InvalidDate
  ELSE LegacyDate(LegacyDateParse(es5.left, es5.st), tz)

\* new Date(s) for a string s, in a process whose TZ is tz: its time value.
DateParse(s, tz) == ES5Date(ParseES5DateTime(DateTokens(s)), tz)

\* Date.prototype.toISOString of a valid time value: the year with four
\* digits from 0000 to 9999, with a sign and six digits otherwise.
ToISOString(t) ==
  LET ymd == CivilFromDays(t.day)
      secs == t.ms \div 1000
      year == IF ymd[1] \in 0..9999 THEN Pad(ymd[1], 4)
              ELSE IF ymd[1] < 0 THEN <<"-">> \o Pad(0 - ymd[1], 6)
              ELSE <<"+">> \o Pad(ymd[1], 6)
  IN  year \o <<"-">> \o Pad(ymd[2], 2) \o <<"-">> \o Pad(ymd[3], 2)
        \o <<"T">> \o Pad(secs \div 3600, 2) \o <<":">>
        \o Pad((secs % 3600) \div 60, 2) \o <<":">> \o Pad(secs % 60, 2)
        \o <<".">> \o Pad(t.ms % 1000, 3) \o <<"Z">>

(***************************************************************************)
(* The column names the transform reads from the normalized record.        *)
(***************************************************************************)
\* normalizedRecord['account number']
KeyAccountNumber == <<"a","c","c","o","u","n","t"," ","n","u","m","b","e","r">>

\* normalizedRecord['meter']
KeyMeter == <<"m","e","t","e","r">>

\* normalizedRecord['start']
KeyStart == <<"s","t","a","r","t">>

\* normalizedRecord['name']
KeyName == <<"n","a","m","e">>

\* normalizedRecord['location']
KeyLocation == <<"l","o","c","a","t","i","o","n">>

\* normalizedRecord['address']
KeyAddress == <<"a","d","d","r","e","s","s">>

\* normalizedRecord['estimated indicator']
KeyEstimatedIndicator == <<"e","s","t","i","m","a","t","e","d"," ","i","n","d","i","c","a","t","o","r">>

\* normalizedRecord['ccf']
KeyCcf == <<"c","c","f">>

\* normalizedRecord['$']
KeyDollar == <<"$">>

\* 'CCF', the constant unit of measure written to the UOM column.
UomCcf == <<"C","C","F">>

(***************************************************************************)
(* JavaScript objects with string keys: a sequence of <<key, value>> pairs *)
(* in the order of the own property keys, which is the order of for...in:  *)
(* the array indices in ascending order, then the other keys in the order  *)
(* in which they were written first.  Each key is there once.              *)
(***************************************************************************)
HasKey(obj, k) == \E i \in 1..Len(obj) : obj[i][1] = k

\* obj[k], undefined when obj has no property k.
Get(obj, k) ==
  IF HasKey(obj, k)
  THEN obj[CHOOSE i \in 1..Len(obj) : obj[i][1] = k][2]
  ELSE UNDEFINED

\* a < b, for decimal numerals a and b without leading zeros.
IndexLess(a, b) ==
  \/ Len(a) < Len(b)
  \/ /\ Len(a) = Len(b)
     /\ \E i \in 1..Len(a) :
          /\ \A j \in 1..(i - 1) : a[j] = b[j]
          /\ DigitValue(a[i]) < DigitValue(b[i])

\* The key k is an array index: the decimal numeral, without leading
\* zeros, of an integer from 0 to 2^32 - 2.
IsArrayIndex(k) ==
  /\ k /= <<>>
  /\ \A j \in 1..Len(k) : IsDigit(k[j])
  /\ Len(k) = 1 \/ k[1] /= "0"
  /\ Len(k) <= 10
  /\ ~IndexLess(<<"4","2","9","4","9","6","7","2","9","4">>, k)

\* obj[k] = v for a string v: replaces the value of an existing property;
\* a new property comes after the array indices below k when k is an array
\* index, and last otherwise.  The key __proto__ names the prototype of the
\* object, which a string does not replace, and no property is written.
Put(obj, k, v) ==
  LET below == {i \in 1..Len(obj) :
                  IsArrayIndex(obj[i][1]) /\ IndexLess(obj[i][1], k)}
  IN  IF k = <<"_","_","p","r","o","t","o","_","_">> THEN obj
      ELSE IF HasKey(obj, k)
      THEN [i \in 1..Len(obj) |-> IF obj[i][1] = k THEN <<k, v>> ELSE obj[i]]
      ELSE IF IsArrayIndex(k)
      THEN SubSeq(obj, 1, Cardinality(below)) \o <<<<k, v>>>>
             \o SubSeq(obj, Cardinality(below) + 1, Len(obj))
      ELSE Append(obj, <<k, v>>)

(***************************************************************************)
(* parse(csvData, {columns: header => header.map(h => h.trim()),           *)
(*                 skip_empty_lines: true, trim: true})                    *)
(* The CSV text is taken as already split: a header line of column names   *)
(* and data lines of cells; a line without cells is an empty line.         *)
(***************************************************************************)
\* The columns option: the header names, trimmed.
Columns(header) == [i \in 1..Len(header) |-> Trim(header[i])]

\* The characters the parser does not take into an unquoted cell while the
\* cell is still empty (ltrim): carriage return, line feed, form feed, space
\* and tab.
CsvTrimChars == {"\r", "\n", "\f", " ", "\t"}

\* A cell of which only the leading characters are left out.
CsvTrim_LeftOnly(s) ==
  LET n == CHOOSE i \in 0..Len(s) :
             /\ \A j \in 1..i : s[j] \in CsvTrimChars
             /\ i = Len(s) \/ s[i + 1] \notin CsvTrimChars
  IN  SubSeq(s, n + 1, Len(s))

\* An unquoted cell under trim: true: the leading CsvTrimChars are left out
\* as the cell is read, and the cell read is cut by trimRight (rtrim).
CsvTrim(s) ==
  LET n == CHOOSE i \in 0..Len(s) :
             /\ \A j \in 1..i : s[j] \in CsvTrimChars
             /\ i = Len(s) \/ s[i + 1] \notin CsvTrimChars
  IN  TrimEnd(SubSeq(s, n + 1, Len(s)))

\* The record of one data line: columns[i] -> trimmed cell i.
RECURSIVE RecordOf(_, _, _)
RecordOf(columns, line, i) ==
  IF i = 0 THEN <<>>
  ELSE Put(RecordOf(columns, line, i - 1), columns[i], CsvTrim(line[i]))

\* The records of the data lines, empty lines skipped.
RECURSIVE ParseLines(_, _)
ParseLines(columns, lines) ==
  IF lines = <<>> THEN <<>>
  ELSE IF Head(lines) = <<>> THEN ParseLines(columns, Tail(lines))
  ELSE <<RecordOf(columns, Head(lines), Len(columns))>>
         \o ParseLines(columns, Tail(lines))

Parse(csv) == ParseLines(Columns(csv.header), csv.lines)

(***************************************************************************)
(* The callback of records.map in scrapeAndUpload.                         *)
(***************************************************************************)
\* normalizedRecord after the first i turns of for (const keyInRecord in
\* record): the first i properties of record, in the order of its own
\* property keys, written under lower-cased, trimmed keys.
RECURSIVE NormalizedRecord(_, _)
NormalizedRecord(record, i) ==
  IF i = 0 THEN <<>>
  ELSE Put(NormalizedRecord(record, i - 1),
           Trim(ToLowerCase(record[i][1])), record[i][2])

\* const BPU_ACCOUNT_NUMBER_FALLBACK = process.env.BPU_ACCOUNT_NUMBER
AccountNumberFallback(e) == e["BPU_ACCOUNT_NUMBER"]

\* const BPU_METER_ID_FALLBACK = process.env.BPU_METER_ID
MeterIdFallback(e) == e["BPU_METER_ID"]

\* process.env.TZ, the local time zone of new Date(string).
TimeZoneOf(e) == e["TZ"]

\* The account resolution with the operands of || exchanged.
AccountNumberOf_FallbackFirst(norm, e) ==
  Or(e["BPU_ACCOUNT_NUMBER"], Get(norm, KeyAccountNumber))

\* accountNumber = normalizedRecord['account number'] || fallback
AccountNumberOf(norm, e) == Or(Get(norm, KeyAccountNumber), AccountNumberFallback(e))

\* The meter resolution with the operands of || exchanged.
MeterIdOf_FallbackFirst(norm, e) == Or(e["BPU_METER_ID"], Get(norm, KeyMeter))

\* meterId = normalizedRecord['meter'] || fallback
MeterIdOf(norm, e) == Or(Get(norm, KeyMeter), MeterIdFallback(e))

\* startDateTimeString = normalizedRecord['start']
StartOf(norm) == Get(norm, KeyStart)

\* The usage parse with the result, not the string, tested for truthiness
\* (parseFloat(ccfValueFromCsv) || null): 0 and NaN become null.
UsageOf_FalsyResultIsNull(ccfValueFromCsv) ==
  IF Truthy(ccfValueFromCsv)
       /\ ParseFloat(ccfValueFromCsv) \notin {NaN, Number(FALSE, <<"0">>, 0), Number(TRUE, <<"0">>, 0)}
  THEN ParseFloat(ccfValueFromCsv)
  ELSE NullNumber

\* The usage parse without the guard on the usage string.
UsageOf_Unguarded(ccfValueFromCsv) == ParseFloat(ccfValueFromCsv)

\* ccfValueFromCsv ? parseFloat(ccfValueFromCsv) : null
UsageOf(ccfValueFromCsv) ==
  IF Truthy(ccfValueFromCsv) THEN ParseFloat(ccfValueFromCsv) ELSE NullNumber

\* The cost parse without the removal of the '$'.
CostOf_DollarKept(costStringFromCsv) ==
  IF Truthy(costStringFromCsv) THEN ParseFloat(costStringFromCsv) ELSE NullNumber

\* costStringFromCsv ? parseFloat(costStringFromCsv.replace('$', '')) : null
CostOf(costStringFromCsv) ==
  IF Truthy(costStringFromCsv)
  THEN ParseFloat(ReplaceDollar(costStringFromCsv))
  ELSE NullNumber

\* The names of the columns of a destination row.
RowColumns ==
  {"Start", "Account Number", "Name", "Meter", "Location", "Address",
   "Estimated Indicator", "CCF", "$", "UOM", "Usage", "Cost"}

\* supabaseData with the '$' column holding the cost string without its '$'.
SupabaseData_DollarStripped(norm, e) ==
  ("Start" :> ToISOString(DateParse(StartOf(norm), TimeZoneOf(e))))
  @@ ("Account Number" :> AccountNumberOf(norm, e))
  @@ ("Name" :> Get(norm, KeyName))
  @@ ("Meter" :> MeterIdOf(norm, e))
  @@ ("Location" :> Get(norm, KeyLocation))
  @@ ("Address" :> Get(norm, KeyAddress))
  @@ ("Estimated Indicator" :> Get(norm, KeyEstimatedIndicator))
  @@ ("CCF" :> Get(norm, KeyCcf))
  @@ ("$" :> IF Truthy(Get(norm, KeyDollar))
             THEN ReplaceDollar(Get(norm, KeyDollar))
             ELSE Get(norm, KeyDollar))
  @@ ("UOM" :> UomCcf)
  @@ ("Usage" :> UsageOf(Get(norm, KeyCcf)))
  @@ ("Cost" :> CostOf(Get(norm, KeyDollar)))

\* supabaseData, built when the three key components are present and the
\* start string is a valid date.
SupabaseData(norm, e) ==
  ("Start" :> ToISOString(DateParse(StartOf(norm), TimeZoneOf(e))))
  @@ ("Account Number" :> AccountNumberOf(norm, e))
  @@ ("Name" :> Get(norm, KeyName))
  @@ ("Meter" :> MeterIdOf(norm, e))
  @@ ("Location" :> Get(norm, KeyLocation))
  @@ ("Address" :> Get(norm, KeyAddress))
  @@ ("Estimated Indicator" :> Get(norm, KeyEstimatedIndicator))
  @@ ("CCF" :> Get(norm, KeyCcf))
  @@ ("$" :> Get(norm, KeyDollar))
  @@ ("UOM" :> UomCcf)
  @@ ("Usage" :> UsageOf(Get(norm, KeyCcf)))
  @@ ("Cost" :> CostOf(Get(norm, KeyDollar)))

\* The key validation without the test of the meter.
MissingKeyComponent_NoMeterCheck(norm, e) ==
  \/ ~Truthy(AccountNumberOf(norm, e))
  \/ ~Truthy(StartOf(norm))

\* !accountNumber || !meterId || !startDateTimeString
MissingKeyComponent(norm, e) ==
  \/ ~Truthy(AccountNumberOf(norm, e))
  \/ ~Truthy(MeterIdOf(norm, e))
  \/ ~Truthy(StartOf(norm))

\* What one call of the callback does: it returns null after a warning,
\* throws the RangeError of toISOString on an Invalid Date, or returns the
\* destination row.
MapCallback(record, e) ==
  LET norm == NormalizedRecord(record, Len(record))
  IN  IF MissingKeyComponent(norm, e) THEN [does |-> "skip"]
      ELSE IF DateParse(StartOf(norm), TimeZoneOf(e)) = InvalidDate THEN [does |-> "throw"]
      ELSE [does |-> "return", row |-> SupabaseData(norm, e)]

(***************************************************************************)
(* process.env as the scraper process sees it.                             *)
(***************************************************************************)
EnvNames ==
  {"BPU_ACCOUNT_NUMBER", "BPU_METER_ID",
   "BPU_ACCOUNT_NUMBER_FALLBACK", "BPU_METER_ID_FALLBACK", "TZ"}

\* The environment of the "Run BPU Scraper" step of the scheduled workflow:
\* the two fallback secrets are passed as BPU_ACCOUNT_NUMBER_FALLBACK and
\* BPU_METER_ID_FALLBACK (an unset secret is the empty string).
WorkflowEnv(secretAccount, secretMeter) ==
  [n \in EnvNames |->
     IF n = "BPU_ACCOUNT_NUMBER_FALLBACK" THEN secretAccount
     ELSE IF n = "BPU_METER_ID_FALLBACK" THEN secretMeter
     ELSE UNDEFINED]

\* The environment after config() has loaded a .env file that sets (or does
\* not set) BPU_ACCOUNT_NUMBER and BPU_METER_ID.
DotEnv(account, meter) ==
  [n \in EnvNames |->
     IF n = "BPU_ACCOUNT_NUMBER" THEN account
     ELSE IF n = "BPU_METER_ID" THEN meter
     ELSE UNDEFINED]

(***************************************************************************)
(* The inputs of the model: environments and downloaded CSV files.         *)
(***************************************************************************)
FallbackAccount == <<"A","9">>

FallbackMeter == <<"M","9">>

\* The environment e with TZ set to tz.
InTimeZone(e, tz) == [e EXCEPT !["TZ"] = tz]

Environments ==
  {DotEnv(UNDEFINED, UNDEFINED), DotEnv(FallbackAccount, FallbackMeter),
   DotEnv(EMPTY, FallbackMeter),
   WorkflowEnv(FallbackAccount, FallbackMeter), WorkflowEnv(EMPTY, EMPTY),
   InTimeZone(DotEnv(FallbackAccount, FallbackMeter), TimeZoneChicago)}

\* A header layout is a sequence of columns <<name as written in the file,
\* the exact lower-case trimmed name, field of the line template it holds>>.
PortalHeader ==
  <<<<<<"S","t","a","r","t">>, <<"s","t","a","r","t">>, "start">>,
    <<<<"A","c","c","o","u","n","t"," ","N","u","m","b","e","r">>, <<"a","c","c","o","u","n","t"," ","n","u","m","b","e","r">>, "acct">>,
    <<<<"N","a","m","e">>, <<"n","a","m","e">>, "name">>,
    <<<<"M","e","t","e","r">>, <<"m","e","t","e","r">>, "meter">>,
    <<<<"L","o","c","a","t","i","o","n">>, <<"l","o","c","a","t","i","o","n">>, "location">>,
    <<<<"A","d","d","r","e","s","s">>, <<"a","d","d","r","e","s","s">>, "address">>,
    <<<<"E","s","t","i","m","a","t","e","d"," ","I","n","d","i","c","a","t","o","r">>, <<"e","s","t","i","m","a","t","e","d"," ","i","n","d","i","c","a","t","o","r">>, "est">>,
    <<<<"C","C","F">>, <<"c","c","f">>, "ccf">>,
    <<<<"$">>, <<"$">>, "cost">>>>

VariantHeader ==
  <<<<<<" ","S","T","A","R","T">>, <<"s","t","a","r","t">>, "start">>,
    <<<<"a","c","c","o","u","n","t"," ","N","U","M","B","E","R"," ">>, <<"a","c","c","o","u","n","t"," ","n","u","m","b","e","r">>, "acct">>,
    <<<<"N","A","M","E">>, <<"n","a","m","e">>, "name">>,
    <<<<"\t","M","e","t","e","r">>, <<"m","e","t","e","r">>, "meter">>,
    <<<<" ","L","o","c","a","t","i","o","n">>, <<"l","o","c","a","t","i","o","n">>, "location">>,
    <<<<"A","D","D","R","E","S","S"," ">>, <<"a","d","d","r","e","s","s">>, "address">>,
    <<<<"E","s","t","i","m","a","t","e","d"," ","i","n","d","i","c","a","t","o","r">>, <<"e","s","t","i","m","a","t","e","d"," ","i","n","d","i","c","a","t","o","r">>, "est">>,
    <<<<"C","c","f">>, <<"c","c","f">>, "ccf">>,
    <<<<" ","$"," ">>, <<"$">>, "cost">>>>

NoMeterHeader ==
  <<<<<<"S","t","a","r","t">>, <<"s","t","a","r","t">>, "start">>,
    <<<<"A","c","c","o","u","n","t"," ","N","u","m","b","e","r">>, <<"a","c","c","o","u","n","t"," ","n","u","m","b","e","r">>, "acct">>,
    <<<<"N","a","m","e">>, <<"n","a","m","e">>, "name">>,
    <<<<"C","C","F">>, <<"c","c","f">>, "ccf">>,
    <<<<"$">>, <<"$">>, "cost">>>>

NoAccountHeader ==
  <<<<<<"S","t","a","r","t">>, <<"s","t","a","r","t">>, "start">>,
    <<<<"M","e","t","e","r">>, <<"m","e","t","e","r">>, "meter">>,
    <<<<"N","a","m","e">>, <<"n","a","m","e">>, "name">>,
    <<<<"C","C","F">>, <<"c","c","f">>, "ccf">>,
    <<<<"$">>, <<"$">>, "cost">>>>

NoStartHeader ==
  <<<<<<"A","c","c","o","u","n","t"," ","N","u","m","b","e","r">>, <<"a","c","c","o","u","n","t"," ","n","u","m","b","e","r">>, "acct">>,
    <<<<"M","e","t","e","r">>, <<"m","e","t","e","r">>, "meter">>,
    <<<<"C","C","F">>, <<"c","c","f">>, "ccf">>,
    <<<<"$">>, <<"$">>, "cost">>>>

AliasHeader ==
  <<<<<<"S","t","a","r","t"," ","D","a","t","e">>, <<"s","t","a","r","t"," ","d","a","t","e">>, "start">>,
    <<<<"A","c","c","o","u","n","t">>, <<"a","c","c","o","u","n","t">>, "acct">>,
    <<<<"M","e","t","e","r"," ","I","D">>, <<"m","e","t","e","r"," ","i","d">>, "meter">>,
    <<<<"U","s","a","g","e">>, <<"u","s","a","g","e">>, "ccf">>,
    <<<<"$">>, <<"$">>, "cost">>>>

KeysOnlyHeader ==
  <<<<<<"A","c","c","o","u","n","t"," ","N","u","m","b","e","r">>, <<"a","c","c","o","u","n","t"," ","n","u","m","b","e","r">>, "acct">>,
    <<<<"M","e","t","e","r">>, <<"m","e","t","e","r">>, "meter">>,
    <<<<"S","t","a","r","t">>, <<"s","t","a","r","t">>, "start">>>>

TwoMeterHeader ==
  <<<<<<"M","e","t","e","r">>, <<"m","e","t","e","r">>, "meter">>,
    <<<<"A","c","c","o","u","n","t"," ","N","u","m","b","e","r">>, <<"a","c","c","o","u","n","t"," ","n","u","m","b","e","r">>, "acct">>,
    <<<<"S","t","a","r","t">>, <<"s","t","a","r","t">>, "start">>,
    <<<<"M","E","T","E","R"," ">>, <<"m","e","t","e","r">>, "meter2">>,
    <<<<"C","C","F">>, <<"c","c","f">>, "ccf">>>>

ScenarioHeader ==
  <<<<<<"A","c","c","o","u","n","t"," ","N","u","m","b","e","r">>, <<"a","c","c","o","u","n","t"," ","n","u","m","b","e","r">>, "acct">>,
    <<<<"M","e","t","e","r">>, <<"m","e","t","e","r">>, "meter">>,
    <<<<"S","t","a","r","t">>, <<"s","t","a","r","t">>, "start">>,
    <<<<"C","C","F">>, <<"c","c","f">>, "ccf">>,
    <<<<"$">>, <<"$">>, "cost">>>>

HeaderLayouts ==
  {PortalHeader,
   VariantHeader,
   NoMeterHeader,
   NoAccountHeader,
   NoStartHeader,
   AliasHeader,
   KeysOnlyHeader,
   TwoMeterHeader,
   ScenarioHeader}

\* A line template gives the raw cell of each field.
LineGood ==
  [acct |-> <<" ","1","2","3"," ">>,
   meter |-> <<"M","1">>,
   meter2 |-> <<"M","2">>,
   start |-> <<"2","0","2","4","-","0","1","-","0","1","T","0","0",":","0","0",":","0","0","Z">>,
   ccf |-> <<"1","0">>,
   cost |-> <<"$","5",".","0","0">>,
   name |-> <<"A","n","n">>,
   location |-> <<"Y","a","r","d">>,
   address |-> <<"1"," ","E","l","m">>,
   est |-> <<"N">>]

LineSameKey ==
  [acct |-> <<"1","2","3">>,
   meter |-> <<"M","1"," ">>,
   meter2 |-> <<>>,
   start |-> <<"2","0","2","4","-","0","1","-","0","1">>,
   ccf |-> <<"1","2",".","5">>,
   cost |-> <<"1","2",".","5">>,
   name |-> <<"A","n","n">>,
   location |-> <<"Y","a","r","d">>,
   address |-> <<"1"," ","E","l","m">>,
   est |-> <<"Y">>]

LineOther ==
  [acct |-> <<"1","2","3">>,
   meter |-> <<"M","2">>,
   meter2 |-> <<"M","1">>,
   start |-> <<"2","0","2","4","-","0","2","-","2","9","T","2","3",":","5","9",":","5","9",".","1","2","3","Z">>,
   ccf |-> <<"a","b","c">>,
   cost |-> <<"$","1","2",".","5","0">>,
   name |-> <<>>,
   location |-> <<>>,
   address |-> <<>>,
   est |-> <<>>]

LineNoAccount ==
  [acct |-> <<>>,
   meter |-> <<"M","1">>,
   meter2 |-> <<"M","1">>,
   start |-> <<"2","0","2","4","-","0","1","-","0","1","T","0","0",":","0","0",":","0","0","Z">>,
   ccf |-> <<>>,
   cost |-> <<>>,
   name |-> <<"A","n","n">>,
   location |-> <<>>,
   address |-> <<>>,
   est |-> <<>>]

LineNoMeter ==
  [acct |-> <<"1","2","3">>,
   meter |-> <<" "," ">>,
   meter2 |-> <<>>,
   start |-> <<"2","0","2","4","-","0","1","-","0","2">>,
   ccf |-> <<"1","e","1","x">>,
   cost |-> <<"$","$","5">>,
   name |-> <<"A","n","n">>,
   location |-> <<"Y","a","r","d">>,
   address |-> <<>>,
   est |-> <<"N">>]

LineNoStart ==
  [acct |-> <<"1","2","3">>,
   meter |-> <<"M","1">>,
   meter2 |-> <<"M","2">>,
   start |-> <<>>,
   ccf |-> <<"1","0">>,
   cost |-> <<"$","5",".","0","0">>,
   name |-> <<"A","n","n">>,
   location |-> <<>>,
   address |-> <<>>,
   est |-> <<>>]

LineBadStart ==
  [acct |-> <<"1","2","3">>,
   meter |-> <<"M","1">>,
   meter2 |-> <<"M","2">>,
   start |-> <<"b","a","d">>,
   ccf |-> <<"1","0">>,
   cost |-> <<"$","5",".","0","0">>,
   name |-> <<"A","n","n">>,
   location |-> <<>>,
   address |-> <<>>,
   est |-> <<>>]

\* The start of this line names no zone: it is a local time.
LineZero ==
  [acct |-> <<"1","2","3">>,
   meter |-> <<"M","2">>,
   meter2 |-> <<"M","2">>,
   start |-> <<"1","/","1","/","2","0","2","4">>,
   ccf |-> <<"0">>,
   cost |-> <<"0">>,
   name |-> <<>>,
   location |-> <<"Y","a","r","d">>,
   address |-> <<>>,
   est |-> <<>>]

LineTemplates ==
  {LineGood,
   LineSameKey,
   LineOther,
   LineNoAccount,
   LineNoMeter,
   LineNoStart,
   LineBadStart,
   LineZero}

\* The data line of template t under layout h; an empty line has no cells.
LineOf(h, t) == [i \in 1..Len(h) |-> t[h[i][3]]]

EmptyLine == <<>>

\* The data lines a file with layout h may have.
LinesOf(h) == {LineOf(h, t) : t \in LineTemplates} \cup {EmptyLine}

\* All sequences of at most n elements of S.
RECURSIVE SeqsUpTo(_, _)
SeqsUpTo(S, n) ==
  IF n = 0 THEN {<<>>}
  ELSE LET shorter == SeqsUpTo(S, n - 1)
       IN  shorter \cup {Append(q, x) : q \in {r \in shorter : Len(r) = n - 1}, x \in S}

\* The CSV file with layout h and data lines ls.
CsvOf(h, ls) == [header |-> [i \in 1..Len(h) |-> h[i][1]], lines |-> ls]

\* The header of layout h with every name in its exact lower-case trimmed form.
ExactNames(h) == [i \in 1..Len(h) |-> h[i][2]]

(***************************************************************************)
(* State of one run of scrapeAndUpload, from the downloaded file on.       *)
(***************************************************************************)
VARIABLES
  env,           \* process.env
  csvData,       \* the downloaded CSV: header names and data lines
  exactHeader,   \* the header of csvData in exact lower-case trimmed names
  exactRecords,  \* the records of csvData under the header exactHeader
  pc,            \* position of the run in scrapeAndUpload
  records,       \* const records = parse(csvData, ...)
  mapped,        \* results of the records.map callback so far
  skipWarnings,  \* number of 'Skipping record ...' warnings written
  dataToUpsert,  \* const dataToUpsert = records.map(...).filter(...)
  logged,        \* the counts written by the 'Parsed' and 'Prepared' logs
  upsertCalls,   \* the upsert calls made on the store client
  upsertError,   \* the error of the upsert result: "none" or "error"
  thrown,        \* the error that left scrapeAndUpload, "none" if none
  clicks,        \* the elements of the portal page clicked so far, in order
  captchaHandled,\* calls of handlePostLoginCaptcha made by the Choose
                 \* Property error handler
  cpc,           \* position in handlePostLoginCaptcha, "idle" outside a call
  captchaApiKey, \* CAPTCHA_API_KEY, the captchaApiKey argument of every call
  retryCount,    \* let retryCount of handlePostLoginCaptcha
  attempts,      \* iterations of the while loop begun in this call
  retryAtAttempt,\* retryCount when the latest iteration began
  attemptNumbers,\* the attempt numbers (retryCount + 1) logged in this call
  solveCalls,    \* calls of page.solveRecaptchas() in this call
  gotoCalls,     \* calls of page.goto('https://mymeter.bpu.com/') in this call
  detected,      \* what this call has found on the page: "challenge" (the
                 \* captcha error message), "recaptcha", "hcaptcha"
  config,        \* which of the four required settings are set
  supabase,      \* let supabase: "null" or "client"
  browser,       \* let browser: "null", "open" or "closed"
  closeCalls,    \* calls of browser.close()
  visited,       \* a page of the portal has been opened
  loginFailure,  \* what has failed in the login attempt, "none" if nothing
  outcome        \* how the process stands: "running", "resolved", "rejected",
                 \* or "exit 1" after process.exit(1)

\* The state of the navigation in the portal.
navVars == <<clicks, captchaHandled>>

\* The state of a call of handlePostLoginCaptcha.
captchaVars ==
  <<cpc, captchaApiKey, retryCount, attempts, retryAtAttempt, attemptNumbers,
    solveCalls, gotoCalls, detected>>

\* The state of the process around the portal session.
processVars ==
  <<config, supabase, browser, closeCalls, visited, loginFailure, outcome>>

vars ==
  <<env, csvData, exactHeader, exactRecords, pc, records, mapped, skipWarnings,
    dataToUpsert, logged, upsertCalls, upsertError, thrown, navVars,
    captchaVars, processVars>>

\* No call of handlePostLoginCaptcha is in progress.
CaptchaIdle ==
  /\ cpc = "idle"
  /\ retryCount = 0
  /\ attempts = 0
  /\ retryAtAttempt = 0
  /\ attemptNumbers = {}
  /\ solveCalls = 0
  /\ gotoCalls = 0
  /\ detected = {}

\* The four required settings: BPU_USERNAME, BPU_PASSWORD, SUPABASE_URL,
\* SUPABASE_SERVICE_KEY.
RequiredSettings ==
  {"BPU_USERNAME", "BPU_PASSWORD", "SUPABASE_URL", "SUPABASE_SERVICE_KEY"}

\* The process after a successful login: settings complete, client
\* created, browser launched, portal opened.
LoggedIn ==
  /\ config = [n \in RequiredSettings |-> TRUE]
  /\ supabase = "client"
  /\ browser = "open"
  /\ closeCalls = 0
  /\ visited = TRUE
  /\ loginFailure = "none"
  /\ outcome = "running"

\* The elements clicked on the way to the download, in the order of the
\* code: Choose Property, All Meters, Data, Download, Saved Settings,
\* All Water, the download submit button.
ClickChooseProperty == "a#choosePropertyBtn"
ClickAllMeters == "//h2[normalize-space(.)='All Meters']"
ClickData == "span.icon-Data"
ClickDownload == "span.icon-Download.mainButton > a"
ClickSavedSettings == "#dropdownMenuButton"
ClickAllWater == "a.loadDownloadSavedSetting[data-id=\"57\"]"
ClickDownloadSubmit == "#downloadSubmit"

AllClicks ==
  <<ClickChooseProperty, ClickAllMeters, ClickData, ClickDownload,
    ClickSavedSettings, ClickAllWater, ClickDownloadSubmit>>

\* The locals of scrapeAndUpload before the CSV is parsed.
FreshLocals ==
  /\ exactRecords = <<>>
  /\ records = <<>>
  /\ mapped = <<>>
  /\ skipWarnings = 0
  /\ dataToUpsert = <<>>
  /\ logged = [parsed |-> -1, prepared |-> -1]
  /\ upsertCalls = <<>>
  /\ upsertError = "none"
  /\ thrown = "none"

\* .from('Meter Readings')
TableName == "Meter Readings"

\* onConflict: 'Account Number, Meter, Start'
OnConflict == "Account Number, Meter, Start"

Init ==
  /\ env \in Environments
  /\ \E h \in HeaderLayouts :
       \E ls \in SeqsUpTo(LinesOf(h), MaxRows) :
         /\ csvData = CsvOf(h, ls)
         /\ exactHeader = ExactNames(h)
  /\ FreshLocals
  /\ pc = "parse"
  /\ clicks = AllClicks
  /\ captchaHandled = 0
  /\ captchaApiKey = UNDEFINED
  /\ CaptchaIdle
  /\ LoggedIn

\* --- 6. Parse CSV Data ---
ParseCsv ==
  /\ pc = "parse"
  /\ records' = Parse(csvData)
  /\ exactRecords' = Parse([header |-> exactHeader, lines |-> csvData.lines])
  /\ logged' = [logged EXCEPT !.parsed = Len(Parse(csvData))]
  /\ pc' = "map"
  /\ UNCHANGED <<env, csvData, exactHeader, mapped, skipWarnings,
                 dataToUpsert, upsertCalls, upsertError, thrown>>
  /\ UNCHANGED navVars
  /\ UNCHANGED <<captchaVars, processVars>>

\* One call of the records.map callback, on the next record.
TransformRecord ==
  /\ pc = "map"
  /\ Len(mapped) < Len(records)
  /\ LET result == MapCallback(records[Len(mapped) + 1], env)
     IN  \/ /\ result.does = "skip"
            /\ skipWarnings' = skipWarnings + 1
            /\ mapped' = Append(mapped, NULL)
            /\ UNCHANGED <<pc, thrown>>
         \/ /\ result.does = "throw"
            /\ thrown' = "RangeError: Invalid time value"
            /\ pc' = "thrown"
            /\ UNCHANGED <<mapped, skipWarnings>>
         \/ /\ result.does = "return"
            /\ mapped' = Append(mapped, result.row)
            /\ UNCHANGED <<pc, thrown, skipWarnings>>
  /\ UNCHANGED <<env, csvData, exactHeader, exactRecords, records, dataToUpsert, logged,
                 upsertCalls, upsertError>>
  /\ UNCHANGED navVars
  /\ UNCHANGED <<captchaVars, processVars>>

\* A filter that returns the rows in the opposite order.
FilterNull_Reversed(rows) ==
  LET kept == SelectSeq(rows, LAMBDA r : r /= NULL)
  IN  [j \in 1..Len(kept) |-> kept[Len(kept) + 1 - j]]

\* A filter whose test holds of every result, and so keeps the null results
\* (record => record !== undefined).
FilterNull_KeepsNull(rows) == SelectSeq(rows, LAMBDA r : TRUE)

\* .filter(record => record !== null)
FilterNull(rows) == SelectSeq(rows, LAMBDA r : r /= NULL)

\* The map is over: the null results are filtered out and the count logged.
FilterRecords ==
  /\ pc = "map"
  /\ Len(mapped) = Len(records)
  /\ dataToUpsert' = FilterNull(mapped)
  /\ logged' = [logged EXCEPT !.prepared = Len(FilterNull(mapped))]
  /\ pc' = "upsert"
  /\ UNCHANGED <<env, csvData, exactHeader, exactRecords, records, mapped, skipWarnings,
                 upsertCalls, upsertError, thrown>>
  /\ UNCHANGED navVars
  /\ UNCHANGED <<captchaVars, processVars>>

\* An upsert made whatever the length of the batch.
Upsert_WithoutLengthTest ==
  /\ pc = "upsert"
  /\ upsertCalls' = Append(upsertCalls,
       [table |-> TableName, rows |-> dataToUpsert, onConflict |-> OnConflict])
  /\ upsertError' \in {"none", "error"}
  /\ pc' = "finished"
  /\ UNCHANGED <<env, csvData, exactHeader, exactRecords, records, mapped, skipWarnings,
                 dataToUpsert, logged, thrown>>
  /\ UNCHANGED navVars
  /\ UNCHANGED <<captchaVars, processVars>>

\* --- 8. Upsert Data to Supabase --- with dataToUpsert.length > 0: one
\* upsert call, whose result carries an error or not; both ways the run
\* goes on to 'BPU Scraper finished successfully.'
Upsert ==
  /\ pc = "upsert"
  /\ Len(dataToUpsert) > 0
  /\ upsertCalls' = Append(upsertCalls,
       [table |-> TableName, rows |-> dataToUpsert, onConflict |-> OnConflict])
  /\ upsertError' \in {"none", "error"}
  /\ pc' = "finished"
  /\ UNCHANGED <<env, csvData, exactHeader, exactRecords, records, mapped, skipWarnings,
                 dataToUpsert, logged, thrown>>
  /\ UNCHANGED navVars
  /\ UNCHANGED <<captchaVars, processVars>>

\* 'No valid data to upsert.'
NoValidData ==
  /\ pc = "upsert"
  /\ Len(dataToUpsert) = 0
  /\ pc' = "finished"
  /\ UNCHANGED <<env, csvData, exactHeader, exactRecords, records, mapped, skipWarnings,
                 dataToUpsert, logged, upsertCalls, upsertError, thrown>>
  /\ UNCHANGED navVars
  /\ UNCHANGED <<captchaVars, processVars>>

Next ==
  \/ ParseCsv
  \/ TransformRecord
  \/ FilterRecords
  \/ Upsert
  \/ NoValidData

Spec == Init /\ [][Next]_vars

(***************************************************************************)
(* handlePostLoginCaptcha(page, captchaApiKey, maxRetries = 3).  What the  *)
(* page shows, whether a page call throws and how the solver fails are     *)
(* chosen freely in every step.                                            *)
(***************************************************************************)
\* maxRetries: number = 3; no call passes another value.
maxRetries == 3

\* The values of CAPTCHA_API_KEY: not set, set to the empty string, set.
CaptchaApiKeys == {UNDEFINED, EMPTY, <<"k", "e", "y">>}

\* What a call of handlePostLoginCaptcha leaves alone.
callerVars ==
  <<env, csvData, exactHeader, exactRecords, pc, records, mapped, skipWarnings,
    dataToUpsert, logged, upsertCalls, upsertError, thrown, navVars,
    processVars>>

\* The run stands before one of the three calls of handlePostLoginCaptcha:
\* after the login, before the Choose Property click, or in the Choose
\* Property error handler.
CaptchaCallSites == {"postLoginCaptcha", "preChooseCaptcha", "handleCaptcha"}

\* The statement after the call made at a call site.
AfterCaptcha(site) ==
  CASE site = "postLoginCaptcha" -> "loginActions"
    [] site = "preChooseCaptcha" -> "chooseProperty"
    [] site = "handleCaptcha" -> "retryChooseProperty"

InitCaptcha ==
  /\ env = DotEnv(UNDEFINED, UNDEFINED)
  /\ csvData = CsvOf(PortalHeader, <<>>)
  /\ exactHeader = ExactNames(PortalHeader)
  /\ FreshLocals
  /\ pc \in CaptchaCallSites
  /\ clicks = <<>>
  /\ captchaHandled = 0
  /\ LoggedIn
  /\ captchaApiKey \in CaptchaApiKeys
  /\ CaptchaIdle

\* await handlePostLoginCaptcha(page, CAPTCHA_API_KEY): the call is entered,
\* let retryCount = 0.
CallCaptcha ==
  /\ pc \in CaptchaCallSites
  /\ cpc = "idle"
  /\ cpc' = "while"
  /\ retryCount' = 0
  /\ attempts' = 0
  /\ retryAtAttempt' = 0
  /\ attemptNumbers' = {}
  /\ solveCalls' = 0
  /\ gotoCalls' = 0
  /\ detected' = {}
  /\ UNCHANGED <<captchaApiKey, callerVars>>

\* The function has returned: the caller goes on with its next statement.
ReturnFromCaptcha ==
  /\ cpc = "returned"
  /\ cpc' = "idle"
  /\ pc' = AfterCaptcha(pc)
  /\ captchaHandled' = IF pc = "handleCaptcha" THEN captchaHandled + 1
                       ELSE captchaHandled
  /\ UNCHANGED <<env, csvData, exactHeader, exactRecords, records, mapped,
                 skipWarnings, dataToUpsert, logged, upsertCalls, upsertError,
                 thrown, clicks, processVars>>
  /\ UNCHANGED <<captchaApiKey, retryCount, attempts, retryAtAttempt,
                 attemptNumbers, solveCalls, gotoCalls>>
  /\ UNCHANGED detected

\* while (retryCount < maxRetries) { try { log 'CAPTCHA Check Attempt
\* retryCount + 1 / maxRetries' ...; when the test fails the function
\* returns.
LoopTest ==
  /\ cpc = "while"
  /\ IF retryCount < maxRetries
     THEN /\ attempts' = attempts + 1
          /\ retryAtAttempt' = retryCount
          /\ attemptNumbers' = attemptNumbers \cup {retryCount + 1}
          /\ cpc' = "inspect"
     ELSE /\ cpc' = "returned"
          /\ UNCHANGED <<attempts, retryAtAttempt, attemptNumbers>>
  /\ UNCHANGED <<captchaApiKey, retryCount, solveCalls, gotoCalls, callerVars>>
  /\ UNCHANGED detected

\* page.title(), page.content(), page.evaluate(): one of them throws, or the
\* content holds the captcha error message, or it does not.
InspectPage ==
  /\ cpc = "inspect"
  /\ \E page \in {"throws", "challenge", "no message"} :
       /\ cpc' = CASE page = "throws" -> "catch"
                   [] page = "challenge" -> "challenge"
                   [] page = "no message" -> "noMessage"
       /\ detected' = IF page = "challenge" THEN detected \cup {"challenge"}
                      ELSE detected
  /\ UNCHANGED <<captchaApiKey, retryCount, attempts, retryAtAttempt,
                 attemptNumbers, solveCalls, gotoCalls, callerVars>>

\* A challenge branch without the API key test.
ChallengeDetected_NoKeyTest ==
  /\ cpc = "challenge"
  /\ \E screenshot \in {"saved", "throws"} :
       cpc' = IF screenshot = "throws" THEN "catch" ELSE "navigate"
  /\ UNCHANGED <<captchaApiKey, retryCount, attempts, retryAtAttempt,
                 attemptNumbers, solveCalls, gotoCalls, callerVars>>
  /\ UNCHANGED detected

\* The challenge branch up to the API key test: the screenshot is taken or
\* throws; without an API key the function throws into its own catch.
ChallengeDetected ==
  /\ cpc = "challenge"
  /\ \E screenshot \in {"saved", "throws"} :
       cpc' = IF screenshot = "throws" \/ ~Truthy(captchaApiKey)
              THEN "catch" ELSE "navigate"
  /\ UNCHANGED <<captchaApiKey, retryCount, attempts, retryAtAttempt,
                 attemptNumbers, solveCalls, gotoCalls, callerVars>>
  /\ UNCHANGED detected

\* page.goto('https://mymeter.bpu.com/') and the three page.$$ queries: a
\* call throws, or a reCAPTCHA or hCaptcha element is found, or an image
\* captcha or nothing.
NavigateToRoot ==
  /\ cpc = "navigate"
  /\ gotoCalls' = gotoCalls + 1
  /\ \E found \in {"throws", "recaptcha", "hcaptcha", "image", "none"} :
       /\ cpc' = CASE found = "throws" -> "catch"
                   [] found \in {"recaptcha", "hcaptcha"} -> "solve"
                   [] OTHER -> "recheck"
       /\ detected' = IF found \in {"recaptcha", "hcaptcha"}
                      THEN detected \cup {found} ELSE detected
  /\ UNCHANGED <<captchaApiKey, retryCount, attempts, retryAtAttempt,
                 attemptNumbers, solveCalls, callerVars>>

\* How a call of page.solveRecaptchas() ends.
SolverResults == {"solved", "ERROR_CAPTCHA_UNSOLVABLE", "other error"}

\* try { await page.solveRecaptchas(); solvingAttempted = true } catch
\* (solveError) { warn 'failed on attempt retryCount + 1'; if the message
\* has ERROR_CAPTCHA_UNSOLVABLE { retryCount++; if (retryCount < maxRetries)
\* { log 'Retrying (retryCount + 1 / maxRetries)'; continue } } throw
\* solveError }, the same for reCAPTCHA and hCaptcha elements.
SolveChallenge ==
  /\ cpc = "solve"
  /\ solveCalls' = solveCalls + 1
  /\ \E result \in SolverResults :
       CASE result = "solved" ->
              /\ cpc' = "recheck"
              /\ UNCHANGED <<retryCount, attemptNumbers>>
         [] result = "ERROR_CAPTCHA_UNSOLVABLE" ->
              /\ retryCount' = retryCount + 1
              /\ IF retryCount + 1 < maxRetries
                 THEN /\ attemptNumbers' =
                           attemptNumbers \cup {retryCount + 1, retryCount + 2}
                      /\ cpc' = "while"
                 ELSE /\ attemptNumbers' = attemptNumbers \cup {retryCount + 1}
                      /\ cpc' = "catch"
         [] result = "other error" ->
              /\ attemptNumbers' = attemptNumbers \cup {retryCount + 1}
              /\ cpc' = "catch"
              /\ UNCHANGED retryCount
  /\ UNCHANGED <<captchaApiKey, attempts, retryAtAttempt, gotoCalls, callerVars>>
  /\ UNCHANGED detected

\* A recheck that goes round again without counting while the message is
\* still there.
RecheckPage_RetryNotCounted ==
  /\ cpc = "recheck"
  /\ \E content \in {"throws", "still present", "resolved"} :
       CASE content = "throws" ->
              /\ cpc' = "catch"
              /\ UNCHANGED <<retryCount, attemptNumbers>>
         [] content = "still present" ->
              /\ cpc' = "while"
              /\ UNCHANGED <<retryCount, attemptNumbers>>
         [] content = "resolved" ->
              /\ cpc' = "returned"
              /\ UNCHANGED <<retryCount, attemptNumbers>>
  /\ UNCHANGED <<captchaApiKey, attempts, retryAtAttempt, solveCalls, gotoCalls,
                 callerVars>>
  /\ UNCHANGED detected

\* const updatedContent = await page.content(): the call throws; or the
\* message is still there: retryCount++, then continue with a log while
\* retryCount < maxRetries, else break; or the message is gone: break.
RecheckPage ==
  /\ cpc = "recheck"
  /\ \E content \in {"throws", "still present", "resolved"} :
       CASE content = "throws" ->
              /\ cpc' = "catch"
              /\ UNCHANGED <<retryCount, attemptNumbers>>
         [] content = "still present" ->
              /\ retryCount' = retryCount + 1
              /\ IF retryCount + 1 < maxRetries
                 THEN /\ attemptNumbers' = attemptNumbers \cup {retryCount + 2}
                      /\ cpc' = "while"
                 ELSE /\ cpc' = "returned"
                      /\ UNCHANGED attemptNumbers
         [] content = "resolved" ->
              /\ cpc' = "returned"
              /\ UNCHANGED <<retryCount, attemptNumbers>>
  /\ UNCHANGED <<captchaApiKey, attempts, retryAtAttempt, solveCalls, gotoCalls,
                 callerVars>>
  /\ UNCHANGED detected

\* else { const recaptchaElements = await page.$$(...); if
\* (recaptchaElements.length > 0 && captchaApiKey) ... else break }: the
\* query throws, or the solver is to be called, or the loop is left.
NoMessageBranch ==
  /\ cpc = "noMessage"
  /\ \E found \in {"throws", "recaptcha", "none"} :
       /\ cpc' = CASE found = "throws" -> "catch"
                   [] found = "recaptcha" /\ Truthy(captchaApiKey) -> "solveNoMessage"
                   [] OTHER -> "returned"
       /\ detected' = IF found = "recaptcha" THEN detected \cup {found}
                      ELSE detected
  /\ UNCHANGED <<captchaApiKey, retryCount, attempts, retryAtAttempt,
                 attemptNumbers, solveCalls, gotoCalls, callerVars>>

\* try { await page.solveRecaptchas(); break } catch (solveError) { warn;
\* if the message has ERROR_CAPTCHA_UNSOLVABLE { retryCount++; if
\* (retryCount < maxRetries) { log 'Retrying'; continue } } throw solveError }
SolveNoMessage ==
  /\ cpc = "solveNoMessage"
  /\ solveCalls' = solveCalls + 1
  /\ \E result \in SolverResults :
       CASE result = "solved" ->
              /\ cpc' = "returned"
              /\ UNCHANGED <<retryCount, attemptNumbers>>
         [] result = "ERROR_CAPTCHA_UNSOLVABLE" ->
              /\ retryCount' = retryCount + 1
              /\ IF retryCount + 1 < maxRetries
                 THEN /\ attemptNumbers' = attemptNumbers \cup {retryCount + 2}
                      /\ cpc' = "while"
                 ELSE /\ cpc' = "catch"
                      /\ UNCHANGED attemptNumbers
         [] result = "other error" ->
              /\ cpc' = "catch"
              /\ UNCHANGED <<retryCount, attemptNumbers>>
  /\ UNCHANGED <<captchaApiKey, attempts, retryAtAttempt, gotoCalls, callerVars>>
  /\ UNCHANGED detected

\* A catch block that throws the error on to the caller once the retries
\* are used up.
OuterCatch_Rethrows ==
  /\ cpc = "catch"
  /\ retryCount' = retryCount + 1
  /\ IF retryCount + 1 < maxRetries
     THEN /\ attemptNumbers' = attemptNumbers \cup {retryCount + 1, retryCount + 2}
          /\ cpc' = "while"
          /\ UNCHANGED <<pc, thrown>>
     ELSE /\ attemptNumbers' = attemptNumbers \cup {retryCount + 1}
          /\ cpc' = "idle"
          /\ thrown' = "Error: captcha handling failed"
          /\ pc' = "thrown"
  /\ UNCHANGED <<env, csvData, exactHeader, exactRecords, records, mapped,
                 skipWarnings, dataToUpsert, logged, upsertCalls, upsertError,
                 navVars, processVars>>
  /\ UNCHANGED <<captchaApiKey, attempts, retryAtAttempt, solveCalls, gotoCalls,
                 detected>>

\* catch (captchaError) { warn '(attempt retryCount + 1)'; try { screenshot
\* } catch { warn }; retryCount++; if (retryCount < maxRetries) { log
\* 'Retrying (retryCount + 1 / maxRetries)'; continue } else break }
OuterCatch ==
  /\ cpc = "catch"
  /\ retryCount' = retryCount + 1
  /\ IF retryCount + 1 < maxRetries
     THEN /\ attemptNumbers' = attemptNumbers \cup {retryCount + 1, retryCount + 2}
          /\ cpc' = "while"
     ELSE /\ attemptNumbers' = attemptNumbers \cup {retryCount + 1}
          /\ cpc' = "returned"
  /\ UNCHANGED <<captchaApiKey, attempts, retryAtAttempt, solveCalls, gotoCalls,
                 callerVars>>
  /\ UNCHANGED detected

NextCaptcha ==
  \/ CallCaptcha
  \/ ReturnFromCaptcha
  \/ LoopTest
  \/ InspectPage
  \/ ChallengeDetected
  \/ NavigateToRoot
  \/ SolveChallenge
  \/ RecheckPage
  \/ NoMessageBranch
  \/ SolveNoMessage
  \/ OuterCatch

SpecCaptcha == InitCaptcha /\ [][NextCaptcha]_vars

\* Every awaited call of the function settles (page calls have timeouts,
\* the delays are timers), so a call in progress takes its next step.
SpecCaptchaLive == SpecCaptcha /\ WF_vars(NextCaptcha)

(***************************************************************************)
(* The run of scrapeAndUpload from the Choose Property click to the        *)
(* download of the CSV: section 2 to section 5 of the code, with the call  *)
(* of handlePostLoginCaptcha in the Choose Property error handler.  Every  *)
(* wait for an element can time out, which throws; nothing in              *)
(* scrapeAndUpload catches, so a throw ends the run.                       *)
(***************************************************************************)
\* The environments of the runs followed from the portal.
RunEnvironments ==
  {DotEnv(UNDEFINED, UNDEFINED), DotEnv(FallbackAccount, FallbackMeter)}

\* The files the portal delivers in these runs: lines that give a row,
\* lines that are skipped and lines that make the callback throw.
RunFiles ==
  {CsvOf(PortalHeader, ls) :
     ls \in SeqsUpTo({LineOf(PortalHeader, t) :
                        t \in {LineGood, LineNoStart, LineBadStart}}, MaxRows)}

InitRun ==
  /\ env \in RunEnvironments
  /\ csvData \in RunFiles
  /\ exactHeader = ExactNames(PortalHeader)
  /\ FreshLocals
  /\ pc = "chooseProperty"
  /\ clicks = <<>>
  /\ captchaHandled = 0
  /\ captchaApiKey \in CaptchaApiKeys
  /\ CaptchaIdle
  /\ LoggedIn

\* What the navigation steps leave alone.
transformVars ==
  <<env, csvData, exactHeader, exactRecords, records, mapped, skipWarnings,
    dataToUpsert, logged, upsertCalls, upsertError>>

\* try { waitForSelector(choosePropertySelector); click } : the button is
\* clicked, or the wait or the click throws into the catch block.
ChooseProperty ==
  /\ pc = "chooseProperty"
  /\ \/ /\ clicks' = Append(clicks, ClickChooseProperty)
        /\ pc' = "allMeters"
     \/ /\ pc' = "choosePropertyError"
        /\ UNCHANGED clicks
  /\ UNCHANGED <<captchaHandled, thrown, transformVars>>
  /\ UNCHANGED <<captchaVars, processVars>>

\* catch (error) { try { read the page; if it speaks of a captcha ... else
\* screenshot } catch (debugError) { log } throw error }: the page shows a
\* captcha and the screenshot is taken, or it does not, or reading the page
\* or taking the screenshot throws.
ChoosePropertyError ==
  /\ pc = "choosePropertyError"
  /\ \E page \in {"captcha", "other", "debugError"} :
       pc' = IF page = "captcha" THEN "handleCaptcha" ELSE "rethrow"
  /\ UNCHANGED <<clicks, captchaHandled, thrown, transformVars>>
  /\ UNCHANGED <<captchaVars, processVars>>

\* try { waitForSelector(..., 30000); click; return; } catch (retryError)
\* { log }: after the click the return statement ends scrapeAndUpload;
\* after a failure the handler goes on to throw error.
RetryChooseProperty ==
  /\ pc = "retryChooseProperty"
  /\ \/ /\ clicks' = Append(clicks, ClickChooseProperty)
        /\ pc' = "returned"
     \/ /\ pc' = "rethrow"
        /\ UNCHANGED clicks
  /\ UNCHANGED <<captchaHandled, thrown, transformVars>>
  /\ UNCHANGED <<captchaVars, processVars>>

\* throw error; at the end of the catch block.
RethrowChooseProperty ==
  /\ pc = "rethrow"
  /\ thrown' = "TimeoutError: a#choosePropertyBtn"
  /\ pc' = "thrown"
  /\ UNCHANGED <<clicks, captchaHandled, transformVars>>
  /\ UNCHANGED <<captchaVars, processVars>>

\* Click "All Meters": the wait times out, the element handle is null, or
\* the element is clicked.
AllMeters ==
  /\ pc = "allMeters"
  /\ \/ /\ clicks' = Append(clicks, ClickAllMeters)
        /\ pc' = "openData"
        /\ UNCHANGED thrown
     \/ /\ thrown' \in {"TimeoutError: All Meters",
                        "Error: Could not find \"All Meters\" element."}
        /\ pc' = "thrown"
        /\ UNCHANGED clicks
  /\ UNCHANGED <<captchaHandled, transformVars>>
  /\ UNCHANGED <<captchaVars, processVars>>

\* --- 3. Navigate to Download Configuration ---: the Data button, then the
\* Download link.  Each is waited for and then clicked together with a wait
\* for the navigation that the click starts: the wait for the element or
\* the click can fail, before the click, and the navigation can time out,
\* after it.
OpenDataAndDownload ==
  /\ pc = "openData"
  /\ \/ /\ clicks' = clicks \o <<ClickData, ClickDownload>>
        /\ pc' = "export"
        /\ UNCHANGED thrown
     \/ /\ clicks' = clicks \o <<ClickData, ClickDownload>>
        /\ thrown' = "TimeoutError: Navigation timeout"
        /\ pc' = "thrown"
     \/ /\ clicks' = Append(clicks, ClickData)
        /\ thrown' \in {"TimeoutError: Navigation timeout",
                        "TimeoutError: span.icon-Download.mainButton > a",
                        "Error: page.click"}
        /\ pc' = "thrown"
     \/ /\ thrown' \in {"TimeoutError: span.icon-Data", "Error: page.click"}
        /\ pc' = "thrown"
        /\ UNCHANGED clicks
  /\ UNCHANGED <<captchaHandled, transformVars>>
  /\ UNCHANGED <<captchaVars, processVars>>

\* The clicks of the export in the order of the code.
ExportClicks == <<ClickSavedSettings, ClickAllWater, ClickDownloadSubmit>>

\* What can fail in the export once n of its clicks are made: the wait for
\* the next element and its click; after All Water also the two
\* page.evaluate calls of the date range, fs.mkdir, fs.readdir and fs.unlink
\* on the downloads directory (a failure of the CDP session is caught and
\* logged); after the download submit button the screenshot.
ExportFailures ==
  <<{"TimeoutError: #dropdownMenuButton", "Error: page.click"},
    {"TimeoutError: a.loadDownloadSavedSetting[data-id=\"57\"]", "Error: page.click"},
    {"Error: page.evaluate", "TimeoutError: #downloadSubmit", "Error: fs.mkdir",
     "Error: fs.readdir", "Error: fs.unlink", "Error: page.click"},
    {"Error: page.screenshot"}>>

\* --- 4. Configure Download --- and --- 5. Trigger Download ---: Saved
\* Settings, All Water, the date range, the old files of the downloads
\* directory, the download submit button, the screenshot.
TriggerExport ==
  /\ pc = "export"
  /\ \/ /\ clicks' = clicks \o ExportClicks
        /\ pc' = "awaitDownload"
        /\ UNCHANGED thrown
     \/ /\ \E n \in 0..Len(ExportClicks) :
             /\ clicks' = clicks \o SubSeq(ExportClicks, 1, n)
             /\ thrown' \in ExportFailures[n + 1]
        /\ pc' = "thrown"
  /\ UNCHANGED <<captchaHandled, transformVars>>
  /\ UNCHANGED <<captchaVars, processVars>>

\* The poll of the downloads directory: a .csv file appears and is read,
\* or 90 seconds pass; fs.readdir of a poll or fs.readFile of the file
\* found can fail.
AwaitDownload ==
  /\ pc = "awaitDownload"
  /\ \/ /\ pc' = "parse"
        /\ UNCHANGED thrown
     \/ /\ thrown' \in {"Error: fs.readdir",
                        "Error: CSV file download timed out or failed.",
                        "Error: fs.readFile"}
        /\ pc' = "thrown"
  /\ UNCHANGED <<clicks, captchaHandled, transformVars>>
  /\ UNCHANGED <<captchaVars, processVars>>

NextRun ==
  \/ ChooseProperty
  \/ ChoosePropertyError
  \/ NextCaptcha
  \/ RetryChooseProperty
  \/ RethrowChooseProperty
  \/ AllMeters
  \/ OpenDataAndDownload
  \/ TriggerExport
  \/ AwaitDownload
  \/ ParseCsv
  \/ TransformRecord
  \/ FilterRecords
  \/ Upsert
  \/ NoValidData

SpecRun == InitRun /\ [][NextRun]_vars

(***************************************************************************)
(* The whole of scrapeAndUpload: the settings test, the store client, the  *)
(* browser, the login, the calls of handlePostLoginCaptcha, the navigation *)
(* and the download, the transform and the upsert, and the finally block.  *)
(***************************************************************************)
\* The files the portal delivers in the runs followed from their start: an
\* empty one, one row, a row and a skipped line, a line that throws.
ScrapeFiles ==
  {CsvOf(PortalHeader, ls) :
     ls \in {<<>>,
             <<LineOf(PortalHeader, LineGood)>>,
             <<LineOf(PortalHeader, LineGood), LineOf(PortalHeader, LineNoStart)>>,
             <<LineOf(PortalHeader, LineBadStart)>>}}

InitScrape ==
  /\ env = DotEnv(UNDEFINED, UNDEFINED)
  /\ csvData \in ScrapeFiles
  /\ exactHeader = ExactNames(PortalHeader)
  /\ FreshLocals
  /\ pc = "start"
  /\ clicks = <<>>
  /\ captchaHandled = 0
  /\ captchaApiKey \in CaptchaApiKeys
  /\ CaptchaIdle
  /\ config \in [RequiredSettings -> BOOLEAN]
  /\ supabase = "null"
  /\ browser = "null"
  /\ closeCalls = 0
  /\ visited = FALSE
  /\ loginFailure = "none"
  /\ outcome = "running"

\* What the steps before the navigation leave alone.
laterVars ==
  <<env, csvData, exactHeader, exactRecords, records, mapped, skipWarnings,
    dataToUpsert, logged, upsertCalls, upsertError, navVars, captchaVars>>

\* A settings test that leaves out SUPABASE_SERVICE_KEY.
CheckConfig_ServiceKeyNotTested ==
  /\ pc = "start"
  /\ IF \E n \in RequiredSettings \ {"SUPABASE_SERVICE_KEY"} : ~config[n]
     THEN /\ outcome' = "exit 1"
          /\ pc' = "exited"
     ELSE /\ pc' = "createClient"
          /\ UNCHANGED outcome
  /\ UNCHANGED <<config, supabase, browser, closeCalls, visited, loginFailure,
                 thrown, laterVars>>

\* if (!BPU_USERNAME || !BPU_PASSWORD) process.exit(1); if (!SUPABASE_URL ||
\* !SUPABASE_SERVICE_KEY) process.exit(1);
CheckConfig ==
  /\ pc = "start"
  /\ IF \E n \in RequiredSettings : ~config[n]
     THEN /\ outcome' = "exit 1"
          /\ pc' = "exited"
     ELSE /\ pc' = "createClient"
          /\ UNCHANGED outcome
  /\ UNCHANGED <<config, supabase, browser, closeCalls, visited, loginFailure,
                 thrown, laterVars>>

\* supabase = createClient(SUPABASE_URL, SUPABASE_SERVICE_KEY): the client is
\* created, or createClient throws (a URL that is set but is no URL).
CreateClient ==
  /\ pc = "createClient"
  /\ \/ /\ supabase' = "client"
        /\ pc' = "launch"
        /\ UNCHANGED thrown
     \/ /\ thrown' = "Error: Invalid supabaseUrl"
        /\ pc' = "thrown"
        /\ UNCHANGED supabase
  /\ UNCHANGED <<config, browser, closeCalls, visited, loginFailure, outcome,
                 laterVars>>

\* browser = await puppeteer.launch({...}): the browser is launched, or the
\* launch throws and browser stays null.
LaunchBrowser ==
  /\ pc = "launch"
  /\ \/ /\ browser' = "open"
        /\ pc' = "openPortal"
        /\ UNCHANGED thrown
     \/ /\ thrown' = "Error: Failed to launch the browser process"
        /\ pc' = "thrown"
        /\ UNCHANGED browser
  /\ UNCHANGED <<config, supabase, closeCalls, visited, loginFailure, outcome,
                 laterVars>>

\* browser.newPage(), the page set-up, the visits of google.com, bpu.com and
\* mymeter.bpu.com, the typing of the credentials; none of it is inside a
\* try of its own, so a throw goes to the finally block, before a page was
\* opened or after.
OpenPortal ==
  /\ pc = "openPortal"
  /\ \/ /\ visited' = TRUE
        /\ pc' = "login"
        /\ UNCHANGED thrown
     \/ /\ visited' \in BOOLEAN
        /\ thrown' = "TimeoutError: Navigation timeout"
        /\ pc' = "thrown"
  /\ UNCHANGED <<config, supabase, browser, closeCalls, loginFailure, outcome,
                 laterVars>>

\* try { the form is submitted; waitForFunction waits 45 s for a sign of
\* the login }: either throws into catch (loginError).
LoginAttempt ==
  /\ pc = "login"
  /\ \/ /\ pc' = "postLogin"
        /\ UNCHANGED loginFailure
     \/ /\ loginFailure' \in {"form submission", "login success indicators"}
        /\ pc' = "loginError"
  /\ UNCHANGED <<config, supabase, browser, closeCalls, visited, outcome,
                 thrown, laterVars>>

\* Still inside the try: the cookies, the page content, the screenshot
\* after the login; a throw goes to catch (loginError).
PostLoginChecks ==
  /\ pc = "postLogin"
  /\ \/ /\ pc' = "postLoginCaptcha"
        /\ UNCHANGED loginFailure
     \/ /\ loginFailure' = "post-login checks"
        /\ pc' = "loginError"
  /\ UNCHANGED <<config, supabase, browser, closeCalls, visited, outcome,
                 thrown, laterVars>>

\* if (page.url().includes('/Integration/LoginActions')) { try { await
\* page.waitForNavigation(...) } catch (e) { warn } }: a timeout of this
\* wait is caught here and the run goes on.
LoginActionsWait ==
  /\ pc = "loginActions"
  /\ \E wait \in {"not on LoginActions", "navigated", "timed out"} :
       loginFailure' = IF wait = "timed out" THEN "navigation from LoginActions"
                       ELSE loginFailure
  /\ pc' = "preChooseCaptcha"
  /\ UNCHANGED <<config, supabase, browser, closeCalls, visited, outcome,
                 thrown, laterVars>>

\* A handler that throws only when it finds error messages on the page and
\* otherwise lets the run go on.
LoginErrorHandler_FallsThrough ==
  /\ pc = "loginError"
  /\ \/ /\ thrown' = "Error: Login failed with errors"
        /\ pc' = "thrown"
     \/ /\ pc' = "preChooseCaptcha"
        /\ UNCHANGED thrown
  /\ UNCHANGED <<config, supabase, browser, closeCalls, visited, loginFailure,
                 outcome, laterVars>>

\* catch (loginError) { ... throw new Error(...) }: the handler throws
\* 'Login failed with errors: ...', or 'Login attempt failed - ...', or an
\* error of one of its own page calls.
LoginErrorHandler ==
  /\ pc = "loginError"
  /\ thrown' \in {"Error: Login failed with errors",
                  "Error: Login attempt failed - no navigation or expected elements found",
                  "Error: page call in the login error handler"}
  /\ pc' = "thrown"
  /\ UNCHANGED <<config, supabase, browser, closeCalls, visited, loginFailure,
                 outcome, laterVars>>

\* The run has left the try block: by an error, by the return statement, or
\* at its end.
TryLeft == pc \in {"thrown", "returned", "finished"}

\* A browser.close() at the end of the try block instead of a finally
\* block: it is reached only when nothing was thrown and nothing returned.
Finally_CloseAtEndOfTry ==
  /\ TryLeft
  /\ outcome = "running"
  /\ IF browser = "open" /\ pc = "finished"
     THEN /\ closeCalls' = closeCalls + 1
          /\ browser' = "closed"
          /\ \E closed \in BOOLEAN :
               thrown' = IF closed THEN thrown ELSE "Error: browser.close()"
     ELSE UNCHANGED <<closeCalls, browser, thrown>>
  /\ outcome' = IF thrown' = "none" THEN "resolved" ELSE "rejected"
  /\ UNCHANGED <<pc, config, supabase, visited, loginFailure, laterVars>>

\* finally { if (browser) { await browser.close() } }, after which the
\* promise of scrapeAndUpload is resolved, or rejected with the error
\* thrown, that of browser.close() included.
Finally ==
  /\ TryLeft
  /\ outcome = "running"
  /\ IF browser = "open"
     THEN /\ closeCalls' = closeCalls + 1
          /\ browser' = "closed"
          /\ \E closed \in BOOLEAN :
               thrown' = IF closed THEN thrown ELSE "Error: browser.close()"
     ELSE UNCHANGED <<closeCalls, browser, thrown>>
  /\ outcome' = IF thrown' = "none" THEN "resolved" ELSE "rejected"
  /\ UNCHANGED <<pc, config, supabase, visited, loginFailure, laterVars>>

NextScrape ==
  \/ CheckConfig
  \/ CreateClient
  \/ LaunchBrowser
  \/ OpenPortal
  \/ LoginAttempt
  \/ PostLoginChecks
  \/ LoginActionsWait
  \/ LoginErrorHandler
  \/ NextCaptcha
  \/ ChooseProperty
  \/ ChoosePropertyError
  \/ RetryChooseProperty
  \/ RethrowChooseProperty
  \/ AllMeters
  \/ OpenDataAndDownload
  \/ TriggerExport
  \/ AwaitDownload
  \/ ParseCsv
  \/ TransformRecord
  \/ FilterRecords
  \/ Upsert
  \/ NoValidData
  \/ Finally

SpecScrape == InitScrape /\ [][NextScrape]_vars

(***************************************************************************)
(* Definitions used to state the properties.  They read the file under its *)
(* exact lower-case trimmed column names and never go through the key      *)
(* normalization of the transform.                                         *)
(***************************************************************************)
\* The parsed rows of the file, had its header been written in the exact
\* lower-case trimmed names.
ExactRecords == exactRecords

\* The composite key (Account Number, Meter, Start) of a destination row.
KeyOfRow(row) == <<row["Account Number"], row["Meter"], row["Start"]>>

\* The results of the callback that are rows.
IsRow(r) == r /= NULL

\* The batches handed to the store so far, and the batch being prepared.
Batches == {upsertCalls[c].rows : c \in 1..Len(upsertCalls)} \cup {dataToUpsert}

\* The column value of input row i under the exact name k.
Column(i, k) == Get(ExactRecords[i], k)

\* Input row i has no usable value for a key component: the column is
\* absent or empty and, for account and meter, so is the fallback the
\* transform reads.
AccountUnresolved(i) ==
  ~Truthy(Column(i, KeyAccountNumber)) /\ ~Truthy(env["BPU_ACCOUNT_NUMBER"])

MeterUnresolved(i) ==
  ~Truthy(Column(i, KeyMeter)) /\ ~Truthy(env["BPU_METER_ID"])

StartUnresolved(i) == ~Truthy(Column(i, KeyStart))

Unresolved(i) == AccountUnresolved(i) \/ MeterUnresolved(i) \/ StartUnresolved(i)

\* The batch is complete: the map and the filter are over.
BatchBuilt == pc \in {"upsert", "finished"}

(***************************************************************************)
(* C1.  Every row of a batch has a non-empty Account Number, a non-empty   *)
(* Meter and a Start value, and an input row with an unresolved key        *)
(* component is never turned into a row: its result is null and no null    *)
(* is part of a batch.                                                     *)
(***************************************************************************)
C1_BatchRowsHaveKey ==
  /\ \A b \in Batches : \A j \in 1..Len(b) :
       /\ IsRow(b[j])
       /\ Truthy(b[j]["Account Number"])
       /\ Truthy(b[j]["Meter"])
       /\ Truthy(b[j]["Start"])
  /\ \A i \in 1..Len(mapped) : Unresolved(i) => mapped[i] = NULL
  /\ \A c \in 1..Len(upsertCalls) : upsertCalls[c].rows = dataToUpsert

\* A batch was upserted from a file of which a row was skipped.
C1_Witness ==
  /\ pc = "finished"
  /\ upsertCalls /= <<>>
  /\ \E i \in 1..Len(mapped) : Unresolved(i)

(***************************************************************************)
(* C2.  A row whose start is present and non-empty but is not a date is    *)
(* skipped like a row without a key component: its result is null, the     *)
(* transform does not raise and the other rows are still transformed.      *)
(***************************************************************************)
\* Input row i has a start string that is not a date, the other two key
\* components being resolved.
BadStart(i) ==
  /\ ~Unresolved(i)
  /\ DateParse(Column(i, KeyStart), env["TZ"]) = InvalidDate

C2_BadStartSkipsRowOnly ==
  /\ thrown = "none"
  /\ \A i \in 1..Len(mapped) : BadStart(i) => mapped[i] = NULL

(***************************************************************************)
(* C3.  Once the batch is built, its length plus the number of skipped     *)
(* rows is the number of parsed rows; the skipped rows are exactly the     *)
(* rows with an unresolved key component, every other row gives one row    *)
(* of the batch (also when it repeats a key), and the skipped count can be *)
(* read from the run: it is the number of warnings and the difference of   *)
(* the two logged counts.                                                  *)
(***************************************************************************)
C3_BatchPlusSkippedIsParsed ==
  BatchBuilt =>
    /\ Len(dataToUpsert) + skipWarnings = Len(records)
    /\ skipWarnings = Cardinality({i \in 1..Len(records) : Unresolved(i)})
    /\ Len(dataToUpsert) = Cardinality({i \in 1..Len(records) : ~Unresolved(i)})
    /\ Len(records) = Len(ExactRecords)
    /\ logged.parsed - logged.prepared = skipWarnings

\* A run finished on a file of which one row was skipped and every other
\* row is in the batch.
C3_Witness ==
  /\ pc = "finished"
  /\ skipWarnings = 1
  /\ Len(dataToUpsert) = Len(records) - 1
  /\ Len(dataToUpsert) >= 1

(***************************************************************************)
(* C4.  As claimed: no two rows of a batch handed to an upsert call share  *)
(* the composite key (Account Number, Meter, Start).                       *)
(***************************************************************************)
KeysUnique(b) ==
  \A j, k \in 1..Len(b) : j /= k => KeyOfRow(b[j]) /= KeyOfRow(b[k])

C4_KeyUniqueInEveryBatch ==
  \A c \in 1..Len(upsertCalls) : KeysUnique(upsertCalls[c].rows)

\* The key input row i resolves to: account, meter and the instant of its
\* start string.
ResolvedKey(i) ==
  <<Or(Column(i, KeyAccountNumber), env["BPU_ACCOUNT_NUMBER"]),
    Or(Column(i, KeyMeter), env["BPU_METER_ID"]),
    DateParse(Column(i, KeyStart), env["TZ"])>>

\* No two accepted input rows resolve to the same key.
InputKeysDistinct ==
  \A i, j \in 1..Len(records) :
    (i /= j /\ ~Unresolved(i) /\ ~Unresolved(j)) => ResolvedKey(i) /= ResolvedKey(j)

\* C4 as amended.  The batch is not deduplicated: its keys are unique when
\* no two accepted rows of the file resolve to the same account, meter and
\* start instant, and a batch of a file with such rows repeats the key.
C4_KeyUniqueWhenInputKeysDistinct ==
  \A c \in 1..Len(upsertCalls) :
    InputKeysDistinct <=> KeysUnique(upsertCalls[c].rows)

\* A batch of two rows with different keys was upserted.
C4_Witness ==
  /\ InputKeysDistinct
  /\ \E c \in 1..Len(upsertCalls) : Len(upsertCalls[c].rows) >= 2

(***************************************************************************)
(* C5.  Column names are matched whatever their letter case and            *)
(* surrounding white space: every result of the transform (row, null or    *)
(* the error) is the result the same lines give under the exact lower-case *)
(* trimmed column names.                                                   *)
(***************************************************************************)
\* The result for a record whose keys are already the exact names: the
\* record is read as it is, without any key normalization.
ExactResult(record, e) ==
  IF MissingKeyComponent(record, e) THEN NULL
  ELSE IF DateParse(StartOf(record), TimeZoneOf(e)) = InvalidDate THEN [raises |-> TRUE]
  ELSE SupabaseData(record, e)

C5_ColumnNamesCaseAndSpaceInsensitive ==
  /\ \A i \in 1..Len(mapped) : mapped[i] = ExactResult(ExactRecords[i], env)
  /\ thrown /= "none" =>
       ExactResult(ExactRecords[Len(mapped) + 1], env) = [raises |-> TRUE]
  /\ BatchBuilt => Len(mapped) = Len(ExactRecords)

\* A file whose header differs from the exact names gave a batch of rows
\* and a skipped row.
C5_Witness ==
  /\ pc = "finished"
  /\ \A i \in 1..Len(exactHeader) : csvData.header[i] /= exactHeader[i]
  /\ \E i \in 1..Len(exactHeader) :
       ToLowerCase(csvData.header[i]) /= csvData.header[i]
         /\ Trim(csvData.header[i]) /= csvData.header[i]
  /\ Len(dataToUpsert) >= 1
  /\ skipWarnings >= 1

(***************************************************************************)
(* C6.  The account number of a row is the account column's value when it  *)
(* is non-empty, otherwise the fallback the transform reads                *)
(* (process.env.BPU_ACCOUNT_NUMBER), otherwise the row is rejected; the    *)
(* meter is resolved the same way with process.env.BPU_METER_ID; the start *)
(* has no fallback.                                                        *)
(***************************************************************************)
C6_ColumnThenFallbackThenReject ==
  \A i \in 1..Len(mapped) :
    /\ (AccountUnresolved(i) \/ MeterUnresolved(i) \/ StartUnresolved(i))
         => mapped[i] = NULL
    /\ IsRow(mapped[i]) =>
         /\ mapped[i]["Account Number"] =
              IF Truthy(Column(i, KeyAccountNumber))
              THEN Column(i, KeyAccountNumber)
              ELSE env["BPU_ACCOUNT_NUMBER"]
         /\ mapped[i]["Meter"] =
              IF Truthy(Column(i, KeyMeter))
              THEN Column(i, KeyMeter)
              ELSE env["BPU_METER_ID"]

\* With both fallbacks configured, one row took its account and meter from
\* its columns and another row took them from the fallbacks.
C6_Witness ==
  /\ Truthy(env["BPU_ACCOUNT_NUMBER"]) /\ Truthy(env["BPU_METER_ID"])
  /\ \E i \in 1..Len(mapped) :
       /\ IsRow(mapped[i])
       /\ Truthy(Column(i, KeyAccountNumber))
       /\ mapped[i]["Account Number"] /= env["BPU_ACCOUNT_NUMBER"]
       /\ Truthy(Column(i, KeyMeter))
       /\ mapped[i]["Meter"] /= env["BPU_METER_ID"]
  /\ \E i \in 1..Len(mapped) :
       /\ IsRow(mapped[i])
       /\ ~Truthy(Column(i, KeyAccountNumber))
       /\ mapped[i]["Account Number"] = env["BPU_ACCOUNT_NUMBER"]

(***************************************************************************)
(* C7.  As claimed: each field is resolved from the first present name of  *)
(* its candidate list, so a row with the account under 'account', the      *)
(* meter under 'meter id', the start under 'start date' or 'start time'    *)
(* and the usage under 'usage' or 'consumption' is resolved from those     *)
(* columns.                                                                *)
(***************************************************************************)
AccountCandidates == <<KeyAccountNumber, <<"a","c","c","o","u","n","t">>>>

MeterCandidates == <<KeyMeter, <<"m","e","t","e","r"," ","i","d">>>>

StartCandidates == <<KeyStart, <<"s","t","a","r","t"," ","d","a","t","e">>, <<"s","t","a","r","t"," ","t","i","m","e">>>>

UsageCandidates == <<KeyCcf, <<"u","s","a","g","e">>, <<"c","o","n","s","u","m","p","t","i","o","n">>>>

\* The value of the first candidate name that input row i has a column for.
FirstPresent(i, candidates) ==
  IF \E n \in 1..Len(candidates) : HasKey(ExactRecords[i], candidates[n])
  THEN Column(i, candidates[CHOOSE n \in 1..Len(candidates) :
                   /\ HasKey(ExactRecords[i], candidates[n])
                   /\ \A m \in 1..(n - 1) : ~HasKey(ExactRecords[i], candidates[m])])
  ELSE UNDEFINED

C7_FirstPresentCandidateColumn ==
  \A i \in 1..Len(mapped) :
    ( /\ Truthy(FirstPresent(i, AccountCandidates))
      /\ Truthy(FirstPresent(i, MeterCandidates))
      /\ DateParse(FirstPresent(i, StartCandidates), env["TZ"]) /= InvalidDate )
    => /\ IsRow(mapped[i])
       /\ mapped[i]["Account Number"] = FirstPresent(i, AccountCandidates)
       /\ mapped[i]["Meter"] = FirstPresent(i, MeterCandidates)
       /\ Truthy(FirstPresent(i, UsageCandidates)) => mapped[i]["Usage"] /= NullNumber

(***************************************************************************)
(* C8.  As claimed: with the fallback settings of the scheduled workflow   *)
(* present, a row without an account (meter) column is upserted with the   *)
(* workflow's fallback account number (meter id).                          *)
(***************************************************************************)
C8_WorkflowFallbackSubstituted ==
  \A i \in 1..Len(mapped) :
    /\ ( /\ ~HasKey(ExactRecords[i], KeyAccountNumber)
         /\ Truthy(env["BPU_ACCOUNT_NUMBER_FALLBACK"])
         /\ ~MeterUnresolved(i)
         /\ DateParse(Column(i, KeyStart), env["TZ"]) /= InvalidDate )
       => (IsRow(mapped[i])
             /\ mapped[i]["Account Number"] = env["BPU_ACCOUNT_NUMBER_FALLBACK"])
    /\ ( /\ ~HasKey(ExactRecords[i], KeyMeter)
         /\ Truthy(env["BPU_METER_ID_FALLBACK"])
         /\ ~AccountUnresolved(i)
         /\ DateParse(Column(i, KeyStart), env["TZ"]) /= InvalidDate )
       => (IsRow(mapped[i])
             /\ mapped[i]["Meter"] = env["BPU_METER_ID_FALLBACK"])

(***************************************************************************)
(* C9.  As claimed: a non-empty usage (cost) string that is not a number   *)
(* leaves Usage (Cost) null in the row, and the row is part of the batch.  *)
(***************************************************************************)
C9_UnparseableNumberIsNull ==
  /\ \A i \in 1..Len(mapped) : IsRow(mapped[i]) =>
       /\ ( Truthy(Column(i, KeyCcf)) /\ ParseFloat(Column(i, KeyCcf)) = NaN )
            => mapped[i]["Usage"] = NullNumber
       /\ ( Truthy(Column(i, KeyDollar))
              /\ ParseFloat(ReplaceDollar(Column(i, KeyDollar))) = NaN )
            => mapped[i]["Cost"] = NullNumber
  /\ BatchBuilt => dataToUpsert = FilterNull(mapped)

(***************************************************************************)
(* C10.  A row whose usage column is missing or the empty string has a     *)
(* null Usage, not NaN and not 0; the same holds of Cost and the cost      *)
(* column.                                                                 *)
(***************************************************************************)
C10_MissingOrEmptyNumberIsNull ==
  \A i \in 1..Len(mapped) : IsRow(mapped[i]) =>
    /\ Column(i, KeyCcf) \in {UNDEFINED, EMPTY} => mapped[i]["Usage"] = NullNumber
    /\ Column(i, KeyDollar) \in {UNDEFINED, EMPTY} => mapped[i]["Cost"] = NullNumber

\* An upserted row has an empty usage string and no cost column, and both
\* its Usage and its Cost are null.
C10_Witness ==
  \E c \in 1..Len(upsertCalls) : \E j \in 1..Len(upsertCalls[c].rows) :
    LET row == upsertCalls[c].rows[j]
    IN  /\ row["CCF"] = EMPTY /\ row["Usage"] = NullNumber
        /\ row["$"] = UNDEFINED /\ row["Cost"] = NullNumber

(***************************************************************************)
(* C11.  A usage (cost) string "0" gives the number 0 in Usage (Cost),     *)
(* which is not the null of a missing or empty column.                     *)
(***************************************************************************)
Zero == Number(FALSE, <<"0">>, 0)

C11_ZeroStringIsNumberZero ==
  \A i \in 1..Len(mapped) : IsRow(mapped[i]) =>
    /\ Column(i, KeyCcf) = <<"0">> =>
         (mapped[i]["Usage"] = Zero /\ mapped[i]["Usage"] /= NullNumber)
    /\ Column(i, KeyDollar) = <<"0">> =>
         (mapped[i]["Cost"] = Zero /\ mapped[i]["Cost"] /= NullNumber)

\* One batch holds a row of usage and cost "0", with Usage and Cost 0, and
\* a row of empty usage and cost, with Usage and Cost null.
C11_Witness ==
  \E c \in 1..Len(upsertCalls) :
    LET b == upsertCalls[c].rows
    IN  /\ \E j \in 1..Len(b) :
             /\ b[j]["CCF"] = <<"0">> /\ b[j]["Usage"] = Zero
             /\ b[j]["$"] = <<"0">> /\ b[j]["Cost"] = Zero
        /\ \E j \in 1..Len(b) :
             /\ b[j]["CCF"] = EMPTY /\ b[j]["Usage"] = NullNumber
             /\ b[j]["$"] = EMPTY /\ b[j]["Cost"] = NullNumber

(***************************************************************************)
(* C12.  Cost is the number of the cost string after its leading '$' is    *)
(* removed: "12.5" and "$12.50" both give 12.5, and a cost string with a   *)
(* leading '$' gives the number the string without it gives.               *)
(***************************************************************************)
TwelveAndAHalf == Number(FALSE, <<"1","2","5">>, -1)

C12_CostIgnoresLeadingDollar ==
  \A i \in 1..Len(mapped) : IsRow(mapped[i]) =>
    LET cost == Column(i, KeyDollar)
    IN  /\ cost = <<"1","2",".","5">> => mapped[i]["Cost"] = TwelveAndAHalf
        /\ cost = <<"$","1","2",".","5","0">> => mapped[i]["Cost"] = TwelveAndAHalf
        /\ (Truthy(cost) /\ Head(cost) = "$") =>
             mapped[i]["Cost"] = ParseFloat(Tail(cost))
        /\ (Truthy(cost) /\ IndexOfChar(cost, "$") = 0) =>
             mapped[i]["Cost"] = ParseFloat(cost)

\* One batch holds a row of cost "12.5" and a row of cost "$12.50", both
\* with Cost 12.5.
C12_Witness ==
  \E c \in 1..Len(upsertCalls) :
    LET b == upsertCalls[c].rows
    IN  /\ \E j \in 1..Len(b) :
             b[j]["$"] = <<"1","2",".","5">> /\ b[j]["Cost"] = TwelveAndAHalf
        /\ \E j \in 1..Len(b) :
             b[j]["$"] = <<"$","1","2",".","5","0">> /\ b[j]["Cost"] = TwelveAndAHalf

(***************************************************************************)
(* C13.  The batch keeps the order of the file: it is the sequence of the  *)
(* rows of the accepted input rows, in increasing input position, and the  *)
(* callback runs once per input row.                                       *)
(***************************************************************************)
\* The rows of the accepted ones among the first n input rows, in order.
RECURSIVE AcceptedRows(_)
AcceptedRows(n) ==
  IF n = 0 THEN <<>>
  ELSE IF Unresolved(n) THEN AcceptedRows(n - 1)
  ELSE Append(AcceptedRows(n - 1), SupabaseData(ExactRecords[n], env))

C13_BatchInInputOrder ==
  /\ Len(mapped) <= Len(records)
  /\ BatchBuilt => dataToUpsert = AcceptedRows(Len(ExactRecords))

\* A batch of two different rows was built from a file whose first line
\* gives the first row.
C13_Witness ==
  /\ pc = "finished"
  /\ Len(dataToUpsert) = 2
  /\ dataToUpsert[1] /= dataToUpsert[2]
  /\ dataToUpsert[1] = mapped[1]

(***************************************************************************)
(* C15.  The file with the columns Account Number, Meter, Start, CCF, $    *)
(* and the line " 123 ", M1, 2024-01-01T00:00:00Z, 10, $5.00 gives the row *)
(* Start 2024-01-01T00:00:00.000Z, Account Number 123, Meter M1, CCF 10,   *)
(* $ $5.00, UOM CCF, Usage 10, Cost 5 (and no descriptive field).          *)
(***************************************************************************)
ScenarioFile ==
  [header |-> <<<<"A","c","c","o","u","n","t"," ","N","u","m","b","e","r">>, <<"M","e","t","e","r">>, <<"S","t","a","r","t">>, <<"C","C","F">>, <<"$">>>>,
   lines |-> << <<<<" ","1","2","3"," ">>, <<"M","1">>, <<"2","0","2","4","-","0","1","-","0","1","T","0","0",":","0","0",":","0","0","Z">>, <<"1","0">>, <<"$","5",".","0","0">>>> >>]

ScenarioRow ==
  ("Start" :> <<"2","0","2","4","-","0","1","-","0","1","T","0","0",":","0","0",":","0","0",".","0","0","0","Z">>)
  @@ ("Account Number" :> <<"1","2","3">>)
  @@ ("Name" :> UNDEFINED)
  @@ ("Meter" :> <<"M","1">>)
  @@ ("Location" :> UNDEFINED)
  @@ ("Address" :> UNDEFINED)
  @@ ("Estimated Indicator" :> UNDEFINED)
  @@ ("CCF" :> <<"1","0">>)
  @@ ("$" :> <<"$","5",".","0","0">>)
  @@ ("UOM" :> <<"C","C","F">>)
  @@ ("Usage" :> Number(FALSE, <<"1">>, 1))
  @@ ("Cost" :> Number(FALSE, <<"5">>, 0))

C15_EndToEndScenario ==
  (csvData = ScenarioFile /\ Len(mapped) >= 1) =>
    /\ mapped = <<ScenarioRow>>
    /\ BatchBuilt => dataToUpsert = <<ScenarioRow>>
    /\ \A c \in 1..Len(upsertCalls) : upsertCalls[c].rows = <<ScenarioRow>>

\* The scenario file was transformed and its row upserted.
C15_Witness ==
  /\ csvData = ScenarioFile
  /\ pc = "finished"
  /\ Len(upsertCalls) = 1

(***************************************************************************)
(* C16.  As claimed: an empty string is treated as the column being        *)
(* absent: an empty account or meter falls through to the fallback or the  *)
(* rejection, an empty start rejects the row, and an empty Name, Location, *)
(* Address or Estimated Indicator is absent in the row, not an empty       *)
(* string.                                                                 *)
(***************************************************************************)
\* The value of a descriptive field for column value v: absent when empty.
AbsentIfEmpty(v) == IF v = EMPTY THEN UNDEFINED ELSE v

C16_EmptyStringIsAbsent ==
  \A i \in 1..Len(mapped) :
    /\ (Column(i, KeyAccountNumber) = EMPTY /\ ~Truthy(env["BPU_ACCOUNT_NUMBER"]))
         => mapped[i] = NULL
    /\ (Column(i, KeyMeter) = EMPTY /\ ~Truthy(env["BPU_METER_ID"]))
         => mapped[i] = NULL
    /\ Column(i, KeyStart) = EMPTY => mapped[i] = NULL
    /\ IsRow(mapped[i]) =>
         /\ Column(i, KeyAccountNumber) = EMPTY
              => mapped[i]["Account Number"] = env["BPU_ACCOUNT_NUMBER"]
         /\ Column(i, KeyMeter) = EMPTY
              => mapped[i]["Meter"] = env["BPU_METER_ID"]
         /\ mapped[i]["Name"] = AbsentIfEmpty(Column(i, KeyName))
         /\ mapped[i]["Location"] = AbsentIfEmpty(Column(i, KeyLocation))
         /\ mapped[i]["Address"] = AbsentIfEmpty(Column(i, KeyAddress))
         /\ mapped[i]["Estimated Indicator"] =
              AbsentIfEmpty(Column(i, KeyEstimatedIndicator))

(***************************************************************************)
(* C17.  In every row Name, Location, Address and Estimated Indicator are  *)
(* the values of their columns, CCF and $ are the usage and cost strings   *)
(* as read, and UOM is "CCF".                                              *)
(***************************************************************************)
C17_NonKeyTextCopied ==
  \A i \in 1..Len(mapped) : IsRow(mapped[i]) =>
    /\ mapped[i]["Name"] = Column(i, KeyName)
    /\ mapped[i]["Location"] = Column(i, KeyLocation)
    /\ mapped[i]["Address"] = Column(i, KeyAddress)
    /\ mapped[i]["Estimated Indicator"] = Column(i, KeyEstimatedIndicator)
    /\ mapped[i]["CCF"] = Column(i, KeyCcf)
    /\ mapped[i]["$"] = Column(i, KeyDollar)
    /\ mapped[i]["UOM"] = <<"C","C","F">>

\* An upserted row has the four descriptive fields and a cost string with
\* a '$', while both fallbacks are configured.
C17_Witness ==
  /\ Truthy(env["BPU_ACCOUNT_NUMBER"]) /\ Truthy(env["BPU_METER_ID"])
  /\ \E c \in 1..Len(upsertCalls) : \E j \in 1..Len(upsertCalls[c].rows) :
       LET row == upsertCalls[c].rows[j]
       IN  /\ Truthy(row["Name"]) /\ Truthy(row["Location"])
           /\ Truthy(row["Address"]) /\ Truthy(row["Estimated Indicator"])
           /\ Truthy(row["$"]) /\ Head(row["$"]) = "$"

(***************************************************************************)
(* C18.  A run makes at most one upsert call, on the table Meter Readings  *)
(* with the conflict target Account Number, Meter, Start; the call is made *)
(* only with a batch that is not empty, and a run that ends with an empty  *)
(* batch has written nothing.                                              *)
(***************************************************************************)
C18_AtMostOneUpsertOfNonEmptyBatch ==
  /\ Len(upsertCalls) <= 1
  /\ \A c \in 1..Len(upsertCalls) :
       /\ upsertCalls[c].table = "Meter Readings"
       /\ upsertCalls[c].onConflict = "Account Number, Meter, Start"
       /\ Len(upsertCalls[c].rows) > 0
  /\ (pc \in {"finished", "thrown"} /\ dataToUpsert = <<>>) => upsertCalls = <<>>

\* A run finished without an upsert, its batch being empty although the
\* file had lines.
C18_Witness ==
  /\ pc = "finished"
  /\ Len(records) > 0
  /\ dataToUpsert = <<>>
  /\ upsertCalls = <<>>

(***************************************************************************)
(* C20.  As claimed: a run reaches 'BPU Scraper finished successfully'     *)
(* only if its batch was empty or the upsert returned no error.            *)
(***************************************************************************)
C20_SuccessOnlyWithoutUpsertError ==
  pc = "finished" => (upsertCalls = <<>> \/ upsertError = "none")

(***************************************************************************)
(* C14.  As claimed: a run of the transform on the same CSV text with the  *)
(* same fallback configuration builds the same batch, same length and      *)
(* equal rows position by position: the batch of this run is the batch of  *)
(* the run on its file in every environment with its fallback settings.    *)
(***************************************************************************)
\* The fallback configuration: the four fallback settings of the process.
FallbackNames ==
  {"BPU_ACCOUNT_NUMBER", "BPU_METER_ID",
   "BPU_ACCOUNT_NUMBER_FALLBACK", "BPU_METER_ID_FALLBACK"}

\* Environments d and e have the same fallback configuration.
SameFallbackConfiguration(d, e) == \A n \in FallbackNames : d[n] = e[n]

\* The run on the file of this run in environment e reaches the filter:
\* no call of the callback throws.
MapCompletesIn(e) ==
  \A i \in 1..Len(records) : MapCallback(records[i], e).does /= "throw"

\* The batch that run builds: the rows returned, in the order of the file.
BatchIn(e) ==
  FilterNull([i \in 1..Len(records) |->
                IF MapCallback(records[i], e).does = "return"
                THEN MapCallback(records[i], e).row
                ELSE NULL])

C14_SameFileSameBatch ==
  pc = "upsert" =>
    \A e \in Environments :
      SameFallbackConfiguration(e, env) =>
        /\ MapCompletesIn(e)
        /\ Len(BatchIn(e)) = Len(dataToUpsert)
        /\ \A j \in 1..Len(dataToUpsert) : BatchIn(e)[j] = dataToUpsert[j]

(***************************************************************************)
(* C19.  As claimed: when the first wait or click on Choose Property has   *)
(* failed, the captcha was handled and the retried click has succeeded,    *)
(* the run goes on with All Meters, Data and Download, the export, the     *)
(* parse and the upsert; it ends only with an error of a later step or     *)
(* finished, all elements clicked and a non-empty batch upserted.          *)
(***************************************************************************)
\* The retried click on Choose Property, after the captcha handling, was made.
RetrySucceeded == captchaHandled > 0 /\ Len(clicks) > 0

C19_RunContinuesAfterRetry ==
  RetrySucceeded =>
    /\ pc \in {"allMeters", "openData", "export", "awaitDownload", "parse",
               "map", "upsert", "finished", "thrown"}
    /\ pc = "finished" =>
         /\ clicks = AllClicks
         /\ dataToUpsert /= <<>> => Len(upsertCalls) = 1

(***************************************************************************)
(* C21.  A call of handlePostLoginCaptcha returns, after at most           *)
(* maxRetries iterations of its loop: an iteration is begun only with      *)
(* retryCount greater than it was when the iteration before began,         *)
(* whatever the page shows and however the page calls and the solver fail. *)
(***************************************************************************)
C21_CaptchaHandlingTerminates ==
  /\ [](attempts <= maxRetries)
  /\ [][attempts' /= attempts =>
          /\ attempts' = attempts + 1
          /\ attempts > 0 => retryCount > retryAtAttempt]_vars
  /\ [](cpc = "while" => <>(cpc = "returned"))

\* A call has returned after maxRetries iterations, in each of which the
\* solver was called.
C21_Witness ==
  /\ cpc = "returned"
  /\ attempts = maxRetries
  /\ solveCalls = maxRetries

(***************************************************************************)
(* C22.  As claimed: in every state of a call 0 <= retryCount <=           *)
(* maxRetries, and every attempt number logged (retryCount + 1) is at most *)
(* maxRetries.                                                             *)
(***************************************************************************)
C22_RetryCountWithinLimit ==
  /\ retryCount \in 0..maxRetries
  /\ \A n \in attemptNumbers : n <= maxRetries

(***************************************************************************)
(* C23.  A call of handlePostLoginCaptcha throws nothing to its caller:    *)
(* no error leaves it, and once it is over, the retries used up or not,    *)
(* the caller stands at the statement after the call.                      *)
(***************************************************************************)
C23_CaptchaErrorsAbsorbed ==
  /\ thrown = "none"
  /\ pc \in CaptchaCallSites \cup {AfterCaptcha(site) : site \in CaptchaCallSites}
  /\ cpc /= "idle" => pc \in CaptchaCallSites
  /\ (cpc = "idle" /\ attempts > 0) => pc \notin CaptchaCallSites

\* The call after the login is over with the retries used up, a challenge
\* having been detected with no API key set, and the run stands at the next
\* statement.
C23_Witness ==
  /\ cpc = "idle"
  /\ pc = "loginActions"
  /\ retryCount >= maxRetries
  /\ ~Truthy(captchaApiKey)
  /\ "challenge" \in detected
  /\ thrown = "none"

(***************************************************************************)
(* C24.  With no CAPTCHA API key (not set, or empty) a call of             *)
(* handlePostLoginCaptcha never calls page.solveRecaptchas() and never     *)
(* navigates to the portal root, whatever it detects on the page.          *)
(***************************************************************************)
C24_NoSolverWithoutApiKey ==
  ~Truthy(captchaApiKey) => (solveCalls = 0 /\ gotoCalls = 0)

\* A call without API key is over, having detected the challenge message
\* and, in another iteration, a reCAPTCHA element.
C24_Witness ==
  /\ ~Truthy(captchaApiKey)
  /\ cpc = "returned"
  /\ {"challenge", "recaptcha"} \subseteq detected
  /\ solveCalls = 0
  /\ gotoCalls = 0

(***************************************************************************)
(* C25.  Once the browser is launched, scrapeAndUpload ends (resolved or   *)
(* rejected) only after exactly one call of browser.close(), made after    *)
(* the try block was left, and the process never exits with the browser    *)
(* launched and not closed.                                                *)
(***************************************************************************)
C25_BrowserClosedOnceOnEveryEnd ==
  /\ closeCalls <= 1
  /\ closeCalls = 1 => (TryLeft /\ browser = "closed")
  /\ (browser /= "null" /\ outcome /= "running") =>
       (browser = "closed" /\ closeCalls = 1)
  /\ outcome = "exit 1" => browser = "null"

\* A run that left by the return statement of the Choose Property handler
\* has ended with the browser closed by one call.
C25_Witness ==
  /\ pc = "returned"
  /\ outcome = "resolved"
  /\ browser = "closed"
  /\ closeCalls = 1

(***************************************************************************)
(* C26.  With one of BPU_USERNAME, BPU_PASSWORD, SUPABASE_URL,             *)
(* SUPABASE_SERVICE_KEY not set the run does nothing but exit with status  *)
(* 1: no store client is created, no browser launched, no page opened.     *)
(***************************************************************************)
C26_MissingSettingExitsFirst ==
  (\E n \in RequiredSettings : ~config[n]) =>
    /\ supabase = "null"
    /\ browser = "null"
    /\ visited = FALSE
    /\ clicks = <<>>
    /\ pc \in {"start", "exited"}
    /\ pc = "exited" => outcome = "exit 1"
    /\ pc = "start" => outcome = "running"

\* A run with only SUPABASE_SERVICE_KEY not set has exited with status 1.
C26_Witness ==
  /\ config = [n \in RequiredSettings |-> n /= "SUPABASE_SERVICE_KEY"]
  /\ pc = "exited"
  /\ outcome = "exit 1"
  /\ supabase = "null"
  /\ browser = "null"

(***************************************************************************)
(* C27.  As claimed: whatever fails in the login attempt, the wait for the *)
(* navigation from LoginActions included, the run ends with an error and   *)
(* no later step (Choose Property, download, parse, upsert) is executed.   *)
(***************************************************************************)
\* The run is in the login error handler or has thrown, no later step was
\* executed, and it does not end resolved.
EndsWithoutLaterSteps ==
  /\ pc \in {"loginError", "thrown"}
  /\ cpc = "idle"
  /\ clicks = <<>>
  /\ captchaHandled = 0
  /\ records = <<>>
  /\ dataToUpsert = <<>>
  /\ upsertCalls = <<>>
  /\ pc = "thrown" => thrown /= "none"
  /\ outcome \in {"running", "rejected"}

C27_AnyLoginFailureEndsRun ==
  loginFailure /= "none" => EndsWithoutLaterSteps

(***************************************************************************)
(* C27, amended.  When the form submission, the wait for the signs of the  *)
(* login or the checks after the login throw, the login error handler      *)
(* throws, the run ends rejected and no later step is executed.            *)
(***************************************************************************)
\* The failures that reach catch (loginError).
HandledLoginFailures ==
  {"form submission", "login success indicators", "post-login checks"}

C27_ThrownLoginFailureEndsRun ==
  loginFailure \in HandledLoginFailures => EndsWithoutLaterSteps

\* The wait for the signs of the login has timed out and the run has ended
\* rejected, the browser closed.
C27_Witness ==
  /\ loginFailure = "login success indicators"
  /\ outcome = "rejected"
  /\ browser = "closed"
  /\ clicks = <<>>

====
